---- MODULE Spec2Model ----
(***************************************************************************)
(* Model of the AgentMolt durable backend: the SQLite entity store         *)
(* (agentmolt/store.py), its policy evaluator (Store.check_policy) and the *)
(* AgentMoltLocal interface (agentmolt/local.py) that fronts them.         *)
(*                                                                         *)
(* Each table is a sequence of rows in insertion (rowid) order.  Every     *)
(* created_at is read from the wall clock right before the insert, so in   *)
(* a history of completed calls ORDER BY created_at is insertion order and *)
(* ORDER BY created_at DESC is its reverse; the listings are modelled so.  *)
(* Costs are REAL in the store; the model counts them in units of 0.5, on  *)
(* which floating-point addition and comparison are exact.                 *)
(* The wall clock is the variable clock, which the step tick advances; the *)
(* agent rows keep the readings they were written at.  Spec and SpecPolicy *)
(* run within one reading of the clock, SpecAgents lets time pass.         *)
(***************************************************************************)
EXTENDS Integers, Sequences, FiniteSets, TLC

\* Total number of rows the four tables may hold together.
MaxRows == 3

\* Largest reading of the wall clock.
MaxClock == 2

\* Largest number of hooks registered for one stage.
MaxHooks == 2

\* Largest number of workers one KillSwitch launches over its life.
MaxWorkers == 2

\* Largest number of times one worker is let into the termination callback.
MaxKills == 2

\* Number of server replies prepared for one call made with both transport
\* clients; no call makes more attempts than MAX_RETRIES, the largest
\* max_retries the clients are built with here.
MaxResponses == 3

\* Largest number of locked sections of one check_policy call: the listing
\* of the rules and one metric summary per limit rule looked at.
MaxSections == 3

-----------------------------------------------------------------------------
(* Input domains *)

\* Store._uid(): a fresh 12-hex token per row; the n-th row of a table gets
\* the n-th token of the table's pool.
AgentUids  == <<"a1", "a2", "a3", "a4", "a5">>
EventUids  == <<"e1", "e2", "e3", "e4", "e5">>
MetricUids == <<"m1", "m2", "m3", "m4", "m5">>
PolicyUids == <<"p1", "p2", "p3", "p4", "p5">>

\* The python None.
None == "None"

\* Agent ids a caller may pass: ids that register_agent hands out ("a1",
\* "a2", ...), the empty id (global scope) and an id never handed out.
AgentArgs == {"a1", "a2", "zz"}
ScopeIds  == {"", "a1"}
MetricIds == {"a1", "a2"}
CheckIds  == {"", "a1", "a2"}

Names  == {"bot"}
Models == {"", "gpt-4"}
\* update_status takes any string; "bogus" is none of the documented ones.
StatusInputs == {"running", "bogus"}

ActionNames == {"x", "y", "z"}

\* (rule_type, value) pairs add_policy is called with; "abc" is no number.
RuleInputs ==
  { <<"denylist", "x">>, <<"allowlist", "x">>, <<"allowlist", "y">>,
    <<"cost_limit", "0.5">>, <<"token_limit", "2">>, <<"cost_limit", "abc">> }

TokenVals == {1, 2}
\* in units of 0.5
CostVals  == {0, 1}

\* The inputs of the policy and metric calls in the runs of the whole
\* interface (Spec); the evaluator's runs (SpecPolicy) use the sets above.
FewRules == { <<"denylist", "x">>, <<"cost_limit", "0.5">>,
              <<"token_limit", "2">> }

\* client.py and async_client.py: _MAX_RETRIES, _BACKOFF_BASE (0.5, the unit
\* in which the model counts delays) and _RETRYABLE_CODES.
MAX_RETRIES == 3
BACKOFF_BASE == 1
RETRYABLE_CODES == {429, 500, 502, 503, 504}

\* Values of max_retries a client is built with.
RetryInputs == {-1, 0, 1, 2, MAX_RETRIES}

\* Callables registered as hooks.  A hook is an observer that returns
\* normally, like those of hooks.py.
HookFns == {"f", "g"}

\* What one network attempt meets: an HTTP response (its status, and
\* whether its body is valid JSON) or a failure below HTTP (connection
\* refused, timeout, DNS).
HttpResponse(status, json) == [kind |-> "http", status |-> status, json |-> json]
NetworkFailure == [kind |-> "network", status |-> 0, json |-> FALSE]

Responses ==
  { HttpResponse(200, TRUE), HttpResponse(200, FALSE), HttpResponse(304, FALSE),
    HttpResponse(400, TRUE), HttpResponse(401, TRUE), HttpResponse(404, TRUE),
    HttpResponse(429, TRUE), HttpResponse(503, TRUE), NetworkFailure }

\* Threads sharing one Store instance.
Threads == {"t1", "t2"}

\* The methods of Store that touch the database file.
StoreMethods ==
  {"_init_db", "create_agent", "list_agents", "get_agent",
   "update_agent_status", "kill_agent", "create_event", "list_events",
   "create_metric", "get_metrics_summary", "add_policy", "list_policies",
   "check_policy", "stats"}

-----------------------------------------------------------------------------
VARIABLES
  agents,    \* table agents, rows in insertion order
  events,    \* table events
  metrics,   \* table metrics
  policies,  \* table policies
  last,      \* the last interface call: operation, arguments, outcome
  issued,    \* history: the Agent records register_agent has returned
  touched,   \* history: ids an update_status or kill call wrote a status for
  clock,     \* the wall clock Store._now() reads
  lock,      \* Store._lock: the thread holding it, or None
  thr,       \* per thread: the store method it runs and where it is in it
  pending,   \* per thread: the create call it is in, and the now it has read
  run,       \* per thread: the check_policy or update_agent_status call it
             \* is in, what the call has read so far, and its result
  hooks,     \* AgentMolt._hooks: stage -> callables in registration order
  req,       \* the transport client's logical call (_request) in progress
  cmp,       \* one call made with both transport clients against the same
             \* server replies: the two calls as they ended
  local_hooks, \* AgentMoltLocal._hooks: stage -> callables in registration order
  hook_calls,  \* the invocations of those callables, in order
  ks,        \* KillSwitch: on_kill, _thread, _stop_event, the caller's position
  workers    \* the threads a KillSwitch has launched, running _poll_loop

store == <<agents, events, metrics, policies>>
local == <<agents, events, metrics, policies, last, issued, touched>>
locking == <<lock, thr, pending, run>>
transport == <<hooks, req, cmp>>
observers == <<local_hooks, hook_calls>>
killswitch == <<ks, workers>>
\* What the AgentMoltLocal operations neither read nor write (no operation
\* of local.py mentions self._hooks), and the clock they only read.
outside == <<clock, locking, transport, observers, killswitch>>
vars  == <<agents, events, metrics, policies, last, issued, touched, outside>>

\* The state with the last call reduced to the operation, its arguments and
\* the exception it raised.  What a call returns is determined by these and
\* the tables, so a step of the interface that changes the state changes
\* this.
view  == <<agents, events, metrics, policies, last.op, last.agent_id,
           last.arg, last.raised, issued, touched, outside>>

RowCount == Len(agents) + Len(events) + Len(metrics) + Len(policies)

\* An exception with its class, the kind of its message and its status_code
\* (0 for None), and the absence of one.
Error(cls, msg, status_code) ==
  [cls |-> cls, msg |-> msg, status_code |-> status_code]
NoError == Error("", "", 0)

\* No logical call in progress.
NoRequest ==
  [client |-> "", pc |-> "idle", max_retries |-> 0, attempt |-> 0, i |-> 0,
   trace |-> <<>>, outcome |-> "", error |-> NoError, last_exc |-> NoError]

\* No call made with both clients yet.
NoComparison ==
  [max_retries |-> 0, responses |-> <<>>, sync |-> NoRequest,
   async |-> NoRequest]

\* What a logical call does, in order: hooks invoked (the callable),
\* network attempts (the status met, 0 for a network failure, and whether
\* the body was valid JSON), delays slept (their length).
TraceEvent(ev, hook, n, json) ==
  [ev |-> ev, hook |-> hook, n |-> n, json |-> json]

\* A KillSwitch before its construction, and a thread as Thread.start()
\* launches it: at the test of the while loop.  A worker keeps the number of
\* times it entered the callback, whether it began a fetch after that,
\* whether a join on it timed out, whether the interval of the wait it is
\* in is over, and whether its last fetch raised an exception; of a thread
\* that has ended only how it ended and the number of callbacks are kept.
NoKillSwitch ==
  [on_kill |-> None, thread |-> 0, stop_event |-> FALSE, pc |-> "none"]
NewWorker ==
  [pc |-> "head", kills |-> 0, polled_after_kill |-> FALSE, exit |-> "",
   abandoned |-> FALSE, due |-> FALSE, failed |-> FALSE]
Ended(worker, how) ==
  [NewWorker EXCEPT !.pc = "exited", !.exit = how, !.kills = worker.kills,
                    !.polled_after_kill = worker.polled_after_kill]

\* A thread in no create method.
NoCreate == [method |-> "", now |-> 0]

\* A thread outside every Store method.
IdleThread == [pc |-> "idle", method |-> None, left |-> 0, raised |-> FALSE]

\* A thread in no check_policy or update_agent_status call.  Of a call in
\* progress: the method and its arguments, the rule list it fetched and the
\* rule its third loop is at, the now it has read, its result once it has
\* one, and (history) for check_policy what the evaluator yields on each
\* store state since the call began, for update_agent_status the statuses
\* other calls wrote to the same agent since this call's UPDATE.
NoRun ==
  [method |-> "", pc |-> "idle", aid |-> "", arg |-> "", listed |-> <<>>,
   i |-> 0, now |-> 0, result |-> [raised |-> None, ret |-> None],
   snaps |-> {}]

-----------------------------------------------------------------------------
(* Store: agents *)

\* Store._now(): the reading of the wall clock
Store_now == clock

AgentRow(aid, name, model, status, created_at, updated_at) ==
  [id |-> aid, name |-> name, model |-> model, status |-> status,
   created_at |-> created_at, updated_at |-> updated_at]

\* INSERT INTO agents ... status "idle", created_at = updated_at = now
Store_create_agent(tbl, aid, name, model, now) ==
  Append(tbl, AgentRow(aid, name, model, "idle", now, now))

RECURSIVE Rev(_)
Rev(s) == IF s = <<>> THEN <<>> ELSE Append(Rev(Tail(s)), Head(s))

\* ORDER BY created_at and ORDER BY created_at DESC as SQLite's sorter does
\* them over a table scan: rows with equal created_at stay in the order of
\* the scan, which is the order of insertion, in both directions.
RECURSIVE OrderByCreatedAt(_)
OrderByCreatedAt(tbl) ==
  IF tbl = <<>> THEN <<>>
  ELSE LET s == OrderByCreatedAt(SubSeq(tbl, 1, Len(tbl) - 1))
           r == tbl[Len(tbl)]
       IN  SelectSeq(s, LAMBDA e : e.created_at <= r.created_at) \o <<r>>
             \o SelectSeq(s, LAMBDA e : e.created_at > r.created_at)

RECURSIVE OrderByCreatedAtDesc(_)
OrderByCreatedAtDesc(tbl) ==
  IF tbl = <<>> THEN <<>>
  ELSE LET s == OrderByCreatedAtDesc(SubSeq(tbl, 1, Len(tbl) - 1))
           r == tbl[Len(tbl)]
       IN  SelectSeq(s, LAMBDA e : e.created_at >= r.created_at) \o <<r>>
             \o SelectSeq(s, LAMBDA e : e.created_at < r.created_at)

\* SELECT * FROM agents ORDER BY created_at DESC
Store_list_agents(tbl) == OrderByCreatedAtDesc(tbl)

\* SELECT * FROM agents WHERE id=? finds a row ("if not r" is its negation)
AgentFound(tbl, aid) == \E i \in 1..Len(tbl) : tbl[i].id = aid

\* Variant of get_agent whose SELECT has lost its WHERE clause.
Store_get_agent_any_row(tbl, aid) == IF tbl = <<>> THEN None ELSE tbl[1]

\* SELECT * FROM agents WHERE id=?  -> the row, or None
Store_get_agent(tbl, aid) ==
  IF AgentFound(tbl, aid)
    THEN tbl[CHOOSE i \in 1..Len(tbl) : tbl[i].id = aid]
    ELSE None

\* Variant of the UPDATE that has lost its WHERE clause.
Store_update_all_agents(tbl, aid, status, now) ==
  [i \in 1..Len(tbl) |->
     [tbl[i] EXCEPT !.status = status, !.updated_at = now]]

\* Variant of the UPDATE that sets the status and leaves updated_at alone.
Store_update_status_column_only(tbl, aid, status, now) ==
  [i \in 1..Len(tbl) |->
     IF tbl[i].id = aid THEN [tbl[i] EXCEPT !.status = status] ELSE tbl[i]]

\* Store.update_agent_status writes:
\*   UPDATE agents SET status=?, updated_at=? WHERE id=?
\* (the Agent it returns is get_agent on the table after it)
Store_update_agent_status(tbl, aid, status, now) ==
  [i \in 1..Len(tbl) |->
     IF tbl[i].id = aid
       THEN [tbl[i] EXCEPT !.status = status, !.updated_at = now]
       ELSE tbl[i]]

-----------------------------------------------------------------------------
(* Store: events and metrics *)

EventRow(eid, aid, action, target, status, created_at) ==
  [id |-> eid, agent_id |-> aid, action |-> action, target |-> target,
   status |-> status, created_at |-> created_at]

\* SELECT * FROM events WHERE agent_id=? ORDER BY created_at DESC
Store_list_events(tbl, aid) ==
  OrderByCreatedAtDesc(SelectSeq(tbl, LAMBDA e : e.agent_id = aid))

MetricRow(mid, aid, tokens, cost, tools, files) ==
  [id |-> mid, agent_id |-> aid, tokens_used |-> tokens, cost |-> cost,
   tool_calls |-> tools, files_accessed |-> files]

RECURSIVE SumTokens(_, _)
SumTokens(tbl, aid) ==
  IF tbl = <<>> THEN 0
  ELSE (IF Head(tbl).agent_id = aid THEN Head(tbl).tokens_used ELSE 0)
       + SumTokens(Tail(tbl), aid)

RECURSIVE SumCost(_, _)
SumCost(tbl, aid) ==
  IF tbl = <<>> THEN 0
  ELSE (IF Head(tbl).agent_id = aid THEN Head(tbl).cost ELSE 0)
       + SumCost(Tail(tbl), aid)

RECURSIVE SumTools(_, _)
SumTools(tbl, aid) ==
  IF tbl = <<>> THEN 0
  ELSE (IF Head(tbl).agent_id = aid THEN Head(tbl).tool_calls ELSE 0)
       + SumTools(Tail(tbl), aid)

\* Variant of the summary that misses the row committed last (a summary
\* cached before it).
Store_get_metrics_summary_stale(tbl, aid) ==
  LET old == IF tbl = <<>> THEN tbl ELSE SubSeq(tbl, 1, Len(tbl) - 1)
  IN  [tokens_used |-> SumTokens(old, aid),
       cost        |-> SumCost(old, aid),
       tool_calls  |-> SumTools(old, aid),
       count       |-> Len(SelectSeq(old, LAMBDA m : m.agent_id = aid))]

\* SELECT COALESCE(SUM(tokens_used),0), COALESCE(SUM(cost),0), ...
\* FROM metrics WHERE agent_id=?
Store_get_metrics_summary(tbl, aid) ==
  [tokens_used |-> SumTokens(tbl, aid),
   cost        |-> SumCost(tbl, aid),
   tool_calls  |-> SumTools(tbl, aid),
   count       |-> Len(SelectSeq(tbl, LAMBDA m : m.agent_id = aid))]

-----------------------------------------------------------------------------
(* Store: policies *)

PolicyRow(pid, rule_type, value, aid, created_at) ==
  [id |-> pid, rule_type |-> rule_type, value |-> value, agent_id |-> aid,
   created_at |-> created_at]

\* Variant of list_policies that applies no scope.
Store_list_policies_unscoped(tbl, aid) == OrderByCreatedAt(tbl)

\* if agent_id: ... WHERE agent_id=? OR agent_id='' ...  else: all rows
Store_list_policies(tbl, aid) ==
  IF aid # ""
    THEN OrderByCreatedAt(
           SelectSeq(tbl, LAMBDA p : p.agent_id = aid \/ p.agent_id = ""))
    ELSE OrderByCreatedAt(tbl)

\* float(value): the threshold in units of 0.5, or ValueError
FloatParses(v) == v \in {"0.5", "2"}
FloatOf(v) == CASE v = "0.5" -> 1 [] v = "2" -> 4

\* int(value): the threshold, or ValueError ("0.5" is no int literal)
IntParses(v) == v \in {"2"}
IntOf(v) == CASE v = "2" -> 2

PolicyResult(allowed, reason, policy_id) ==
  [allowed |-> allowed, reason |-> reason, policy_id |-> policy_id]

Returned(v) == [raised |-> None, ret |-> v]
Raised(exc) == [raised |-> exc, ret |-> None]

\* The index at which a for loop over a list first meets one of the
\* indices S, or 0 when it meets none.
FirstOf(S) == IF S = {} THEN 0 ELSE CHOOSE i \in S : \A j \in S : i <= j

\* The third loop of check_policy, from rule i on.
RECURSIVE LimitLoop(_, _, _, _)
LimitLoop(pols, i, mets, aid) ==
  IF i > Len(pols) THEN Returned(PolicyResult(TRUE, "allowed", None))
  ELSE
    LET p == pols[i]
        summary == Store_get_metrics_summary(mets, aid)
    IN  IF p.rule_type = "cost_limit" THEN
          IF ~FloatParses(p.value) THEN Raised("ValueError")
          ELSE IF summary.cost >= FloatOf(p.value)
            THEN Returned(PolicyResult(FALSE, "Cost limit exceeded", p.id))
            ELSE LimitLoop(pols, i + 1, mets, aid)
        ELSE IF p.rule_type = "token_limit" THEN
          IF ~IntParses(p.value) THEN Raised("ValueError")
          ELSE IF summary.tokens_used >= IntOf(p.value)
            THEN Returned(PolicyResult(FALSE, "Token limit exceeded", p.id))
            ELSE LimitLoop(pols, i + 1, mets, aid)
        ELSE LimitLoop(pols, i + 1, mets, aid)

\* Variants of check_policy with a plausible slip each; the properties
\* below must tell them from the code's evaluator.
\* The allowlist pass runs before the denylist pass.
Store_check_policy_allow_first(pols, mets, aid, action) ==
  LET listed == Store_list_policies(pols, aid)
      d == FirstOf({ i \in 1..Len(listed) :
             listed[i].rule_type = "denylist" /\ action = listed[i].value })
      a == FirstOf({ i \in 1..Len(listed) : listed[i].rule_type = "allowlist" })
      allowlist_values ==
        { listed[i].value : i \in { j \in 1..Len(listed) :
                                      listed[j].rule_type = "allowlist" } }
  IN  IF a # 0 /\ action \notin allowlist_values
        THEN Returned(PolicyResult(FALSE, "not in allowlist", listed[a].id))
      ELSE IF d # 0
        THEN Returned(PolicyResult(FALSE, "denied by policy", listed[d].id))
      ELSE LimitLoop(listed, 1, mets, aid)

\* The action is compared with the first allowlist rule only.
Store_check_policy_first_allow_only(pols, mets, aid, action) ==
  LET listed == Store_list_policies(pols, aid)
      d == FirstOf({ i \in 1..Len(listed) :
             listed[i].rule_type = "denylist" /\ action = listed[i].value })
      a == FirstOf({ i \in 1..Len(listed) : listed[i].rule_type = "allowlist" })
  IN  IF d # 0
        THEN Returned(PolicyResult(FALSE, "denied by policy", listed[d].id))
      ELSE IF a # 0 /\ action # listed[a].value
        THEN Returned(PolicyResult(FALSE, "not in allowlist", listed[a].id))
      ELSE LimitLoop(listed, 1, mets, aid)

\* A cost-limit pass over all rules, then a token-limit pass.
Store_check_policy_two_passes(pols, mets, aid, action) ==
  LET listed == Store_list_policies(pols, aid)
      summary == Store_get_metrics_summary(mets, aid)
      d == FirstOf({ i \in 1..Len(listed) :
             listed[i].rule_type = "denylist" /\ action = listed[i].value })
      a == FirstOf({ i \in 1..Len(listed) : listed[i].rule_type = "allowlist" })
      allowlist_values ==
        { listed[i].value : i \in { j \in 1..Len(listed) :
                                      listed[j].rule_type = "allowlist" } }
      c == FirstOf({ i \in 1..Len(listed) :
             /\ listed[i].rule_type = "cost_limit"
             /\ FloatParses(listed[i].value)
             /\ summary.cost >= FloatOf(listed[i].value) })
      t == FirstOf({ i \in 1..Len(listed) :
             /\ listed[i].rule_type = "token_limit"
             /\ IntParses(listed[i].value)
             /\ summary.tokens_used >= IntOf(listed[i].value) })
  IN  IF d # 0
        THEN Returned(PolicyResult(FALSE, "denied by policy", listed[d].id))
      ELSE IF a # 0 /\ action \notin allowlist_values
        THEN Returned(PolicyResult(FALSE, "not in allowlist", listed[a].id))
      ELSE IF c # 0
        THEN Returned(PolicyResult(FALSE, "Cost limit exceeded", listed[c].id))
      ELSE IF t # 0
        THEN Returned(PolicyResult(FALSE, "Token limit exceeded", listed[t].id))
      ELSE Returned(PolicyResult(TRUE, "allowed", None))

\* Store.check_policy on the tables pols, mets.
Store_check_policy(pols, mets, aid, action) ==
  LET listed == Store_list_policies(pols, aid)
      d == FirstOf({ i \in 1..Len(listed) :
             listed[i].rule_type = "denylist" /\ action = listed[i].value })
      a == FirstOf({ i \in 1..Len(listed) : listed[i].rule_type = "allowlist" })
      allowlist_values ==
        { listed[i].value : i \in { j \in 1..Len(listed) :
                                      listed[j].rule_type = "allowlist" } }
  IN  IF d # 0
        THEN Returned(PolicyResult(FALSE, "denied by policy", listed[d].id))
      ELSE IF a # 0 /\ action \notin allowlist_values
        THEN Returned(PolicyResult(FALSE, "not in allowlist", listed[a].id))
      ELSE LimitLoop(listed, 1, mets, aid)

-----------------------------------------------------------------------------
(* AgentMoltLocal: the interface operations *)

Call(op, aid, arg, outcome) ==
  [op |-> op, agent_id |-> aid, arg |-> arg,
   raised |-> outcome.raised, ret |-> outcome.ret]

Init ==
  /\ agents = <<>>
  /\ events = <<>>
  /\ metrics = <<>>
  /\ policies = <<>>
  /\ last = Call("init", "", None, Returned(None))
  /\ issued = {}
  /\ touched = {}
  /\ clock = 0
  /\ lock = None
  /\ thr = [t \in Threads |-> IdleThread]
  /\ pending = [t \in Threads |-> NoCreate]
  /\ run = [t \in Threads |-> NoRun]
  /\ hooks = [pre |-> <<>>, post |-> <<>>]
  /\ req = NoRequest
  /\ cmp = NoComparison
  /\ local_hooks = [pre |-> <<>>, post |-> <<>>]
  /\ hook_calls = <<>>
  /\ ks = NoKillSwitch
  /\ workers = <<>>

\* register_agent -> Store.create_agent
register_agent(name, model) ==
  /\ RowCount < MaxRows
  /\ LET aid == AgentUids[Len(agents) + 1]
         rec == AgentRow(aid, name, model, "idle", Store_now, Store_now)
     IN  /\ agents' = Store_create_agent(agents, aid, name, model, Store_now)
         /\ last' = Call("register_agent", aid, None, Returned(rec))
         /\ issued' = issued \cup {rec}
  /\ UNCHANGED <<events, metrics, policies, touched, outside>>

\* list_agents -> Store.list_agents
list_agents ==
  /\ last' = Call("list_agents", "", None, Returned(Store_list_agents(agents)))
  /\ UNCHANGED <<agents, events, metrics, policies, issued, touched, outside>>

\* get_agent: NotFoundError when the store has no such row
get_agent_outcome(tbl, aid) ==
  IF ~AgentFound(tbl, aid)
    THEN Raised("NotFoundError")
    ELSE Returned(Store_get_agent(tbl, aid))

get_agent(aid) ==
  /\ last' = Call("get_agent", aid, None, get_agent_outcome(agents, aid))
  /\ UNCHANGED <<agents, events, metrics, policies, issued, touched, outside>>

\* Variant of kill_agent that removes the row.
Store_kill_agent_deletes(tbl, aid, now) ==
  SelectSeq(tbl, LAMBDA r : r.id # aid)

\* Store.kill_agent: update_agent_status(agent_id, "killed")
Store_kill_agent(tbl, aid, now) ==
  Store_update_agent_status(tbl, aid, "killed", now)

\* update_status -> Store.update_agent_status; NotFoundError on None
update_status(aid, status) ==
  /\ agents' = Store_update_agent_status(agents, aid, status, Store_now)
  /\ last' = Call("update_status", aid, status, get_agent_outcome(agents', aid))
  /\ touched' = IF AgentFound(agents, aid)
                  THEN touched \cup {aid} ELSE touched
  /\ UNCHANGED <<events, metrics, policies, issued, outside>>

\* Variant of kill without the lookup: Store.kill_agent right away.
kill_unchecked(aid) ==
  /\ agents' = Store_kill_agent(agents, aid, Store_now)
  /\ last' = Call("kill", aid, None,
                  Returned([status |-> "killed", agent_id |-> aid]))
  /\ touched' = touched \cup {aid}
  /\ UNCHANGED <<events, metrics, policies, issued, outside>>

\* kill: get_agent first, NotFoundError on None, else Store.kill_agent
kill(aid) ==
  /\ IF ~AgentFound(agents, aid)
       THEN /\ last' = Call("kill", aid, None, Raised("NotFoundError"))
            /\ UNCHANGED <<agents, touched>>
       ELSE /\ agents' = Store_kill_agent(agents, aid, Store_now)
            /\ last' = Call("kill", aid, None,
                            Returned([status |-> "killed", agent_id |-> aid]))
            /\ touched' = touched \cup {aid}
  /\ UNCHANGED <<events, metrics, policies, issued, outside>>

\* Variant of log_event that looks the agent up first.
log_event_checked(aid, action) ==
  /\ RowCount < MaxRows
  /\ IF ~AgentFound(agents, aid)
       THEN /\ last' = Call("log_event", aid, action, Raised("NotFoundError"))
            /\ UNCHANGED events
       ELSE LET rec == EventRow(EventUids[Len(events) + 1], aid, action, "",
                               "allowed", Store_now)
            IN  /\ events' = Append(events, rec)
                /\ last' = Call("log_event", aid, action, Returned(rec))
  /\ UNCHANGED <<agents, metrics, policies, issued, touched, outside>>

\* log_event -> Store.create_event
log_event(aid, action) ==
  /\ RowCount < MaxRows
  /\ LET rec == EventRow(EventUids[Len(events) + 1], aid, action, "",
                         "allowed", Store_now)
     IN  /\ events' = Append(events, rec)
         /\ last' = Call("log_event", aid, action, Returned(rec))
  /\ UNCHANGED <<agents, metrics, policies, issued, touched, outside>>

\* list_events -> Store.list_events
list_events(aid) ==
  /\ last' = Call("list_events", aid, None, Returned(Store_list_events(events, aid)))
  /\ UNCHANGED <<agents, events, metrics, policies, issued, touched, outside>>

\* log_metric -> Store.create_metric
log_metric(aid, tokens, cost) ==
  /\ RowCount < MaxRows
  /\ LET rec == MetricRow(MetricUids[Len(metrics) + 1], aid, tokens, cost, 0, 0)
     IN  /\ metrics' = Append(metrics, rec)
         /\ last' = Call("log_metric", aid, None, Returned(rec))
  /\ UNCHANGED <<agents, events, policies, issued, touched, outside>>

\* add_policy -> Store.add_policy: no validation of rule_type or value
add_policy(rule_type, value, aid) ==
  /\ RowCount < MaxRows
  /\ LET rec == PolicyRow(PolicyUids[Len(policies) + 1], rule_type, value, aid,
                          Store_now)
     IN  /\ policies' = Append(policies, rec)
         /\ last' = Call("add_policy", aid, None,
                         Returned([id |-> rec.id, rule_type |-> rule_type,
                                   value |-> value, agent_id |-> aid]))
  /\ UNCHANGED <<agents, events, metrics, issued, touched, outside>>

\* list_policies -> Store.list_policies
list_policies(aid) ==
  /\ last' = Call("list_policies", aid, None, Returned(Store_list_policies(policies, aid)))
  /\ UNCHANGED <<agents, events, metrics, policies, issued, touched, outside>>

\* check_policy -> Store.check_policy
check_policy(aid, action) ==
  /\ last' = Call("check_policy", aid, action,
                  Store_check_policy(policies, metrics, aid, action))
  /\ UNCHANGED <<agents, events, metrics, policies, issued, touched, outside>>

\* The whole interface, with few policy and metric inputs.
Next ==
  \/ \E n \in Names, m \in Models : register_agent(n, m)
  \/ list_agents
  \/ \E a \in AgentArgs : get_agent(a)
  \/ \E a \in AgentArgs, s \in StatusInputs : update_status(a, s)
  \/ \E a \in AgentArgs : kill(a)
  \/ \E a \in MetricIds : log_event(a, "x")
  \/ \E a \in MetricIds : list_events(a)
  \/ \E a \in MetricIds : log_metric(a, 2, 1)
  \/ \E r \in FewRules : add_policy(r[1], r[2], "")
  \/ list_policies("a1")
  \/ \E a \in MetricIds, x \in {"x", "y"} : check_policy(a, x)

Spec == Init /\ [][Next]_vars

\* The policy evaluator and what it reads: rules and metrics.
NextPolicy ==
  \/ \E r \in RuleInputs, a \in ScopeIds : add_policy(r[1], r[2], a)
  \/ \E a \in MetricIds, t \in TokenVals, c \in CostVals : log_metric(a, t, c)
  \/ \E a \in CheckIds : list_policies(a)
  \/ \E a \in CheckIds, x \in ActionNames : check_policy(a, x)

SpecPolicy == Init /\ [][NextPolicy]_vars

-----------------------------------------------------------------------------
(* Store: the lock around every access to the database file.  Each method  *)
(* is a sequence of sections of the shape                                  *)
(*     with self._lock:                                                    *)
(*         conn = self._connect()                                          *)
(*         try: ... execute, fetch, commit ...                             *)
(*         finally: conn.close()                                           *)
(* A thread is at "want" before the with statement, at "locked" once it    *)
(* holds the lock, at "medium" while its connection is open, at "closed"   *)
(* after conn.close() and before the with statement is left.               *)

\* Numbers of locked sections a call of the method runs through:
\* update_agent_status is the UPDATE followed by get_agent, kill_agent is
\* update_agent_status, check_policy is list_policies followed by one
\* get_metrics_summary per limit rule it looks at; the others are one.
StoreSections(method) ==
  IF method \in {"update_agent_status", "kill_agent"} THEN {2}
  ELSE IF method = "check_policy" THEN 1..MaxSections
  ELSE {1}

\* A thread calls a Store method.
Store_call(t, method) ==
  /\ thr[t].pc = "idle"
  /\ \E n \in StoreSections(method) :
       thr' = [thr EXCEPT ![t] = [pc |-> "want", method |-> method, left |-> n,
                                  raised |-> FALSE]]
  /\ UNCHANGED <<lock, pending, run, local, clock, transport, observers, killswitch>>

\* Variant of the lock: a lock object of the call's own, which never waits.
Store_lock_acquire_private(t) ==
  /\ thr[t].pc = "want"
  /\ lock' = t
  /\ thr' = [thr EXCEPT ![t].pc = "locked"]
  /\ UNCHANGED <<pending, run, local, clock, transport, observers, killswitch>>

\* with self._lock: the thread waits until the lock is free and takes it
Store_lock_acquire(t) ==
  /\ thr[t].pc = "want"
  /\ lock = None
  /\ lock' = t
  /\ thr' = [thr EXCEPT ![t].pc = "locked"]
  /\ UNCHANGED <<pending, run, local, clock, transport, observers, killswitch>>

\* conn = self._connect(): the database file is open from here on
Store_connect(t) ==
  /\ thr[t].pc = "locked"
  /\ thr' = [thr EXCEPT ![t].pc = "medium"]
  /\ UNCHANGED <<lock, pending, run, local, clock, transport, observers, killswitch>>

\* finally: conn.close(), after the statements ran (ok) or one of them
\* raised; an error ends the method after this section.
Store_close(t, ok) ==
  /\ thr[t].pc = "medium"
  /\ thr' = [thr EXCEPT ![t].pc = "closed",
                        ![t].left = IF ok THEN @ ELSE 1,
                        ![t].raised = ~ok]
  /\ UNCHANGED <<lock, pending, run, local, clock, transport, observers, killswitch>>

\* Variant of the with statement that gives the lock back only when its
\* body ended without an exception.
Store_lock_release_unless_raised(t) ==
  /\ thr[t].pc = "closed"
  /\ lock' = IF lock = t /\ ~thr[t].raised THEN None ELSE lock
  /\ thr' = [thr EXCEPT ![t] = IF thr[t].left > 1
                                 THEN [@ EXCEPT !.pc = "want", !.left = @ - 1]
                                 ELSE IdleThread]
  /\ UNCHANGED <<pending, run, local, clock, transport, observers, killswitch>>

\* leaving the with statement releases the lock; the method goes on to its
\* next section or returns (or the exception leaves the method)
Store_lock_release(t) ==
  /\ thr[t].pc = "closed"
  /\ lock' = IF lock = t THEN None ELSE lock
  /\ thr' = [thr EXCEPT ![t] = IF thr[t].left > 1
                                 THEN [@ EXCEPT !.pc = "want", !.left = @ - 1]
                                 ELSE IdleThread]
  /\ UNCHANGED <<pending, run, local, clock, transport, observers, killswitch>>

\* Several threads calling the methods of one Store.
NextThreads ==
  \/ \E t \in Threads, m \in StoreMethods : Store_call(t, m)
  \/ \E t \in Threads : Store_lock_acquire(t)
  \/ \E t \in Threads : Store_connect(t)
  \/ \E t \in Threads, ok \in BOOLEAN : Store_close(t, ok)
  \/ \E t \in Threads : Store_lock_release(t)

SpecThreads == Init /\ [][NextThreads]_vars

\* A thread that holds the lock is running: the statements of a locked
\* section return or raise, and the with statement is left.  Nothing is
\* assumed of a thread waiting for the lock or making a call.
HolderProgress(t) ==
  /\ WF_vars(Store_connect(t))
  /\ WF_vars(\E ok \in BOOLEAN : Store_close(t, ok))
  /\ WF_vars(Store_lock_release(t))

SpecThreadsFair == SpecThreads /\ \A t \in Threads : HolderProgress(t)

-----------------------------------------------------------------------------
(* The transport clients: AgentMolt._request (client.py) and               *)
(* AsyncAgentMolt._request (async_client.py).  One logical call runs as    *)
(*   pre -> attempt -> (sleep -> attempt)* -> post -> done      (AgentMolt) *)
(*          attempt -> (sleep -> attempt)* -> done         (AsyncAgentMolt) *)
(* and the caller goes on from done.                                       *)

\* add_hook: ValueError for a stage other than 'pre' and 'post', else the
\* callable is appended to the stage's list.  Hooks are registered between
\* calls.
AgentMolt_add_hook(stage, fn) ==
  /\ req.pc = "idle"
  /\ stage \in DOMAIN hooks
  /\ Len(hooks[stage]) < MaxHooks
  /\ hooks' = [hooks EXCEPT ![stage] = Append(@, fn)]
  /\ UNCHANGED <<req, cmp, local, clock, locking, observers, killswitch>>

\* 401 -> AuthenticationError, 404 -> NotFoundError, else AgentMoltError,
\* each carrying the status code
Classify(status) ==
  IF status = 401 THEN Error("AuthenticationError", "server", 401)
  ELSE IF status = 404 THEN Error("NotFoundError", "server", 404)
  ELSE Error("AgentMoltError", "server", status)

ConnectionError == Error("AgentMoltError", "Connection error", 0)

\* Variant of the loop head that allows one attempt more.
LoopHead_one_more(r) ==
  IF r.attempt < r.max_retries + 1
    THEN [r EXCEPT !.pc = "attempt"]
    ELSE [r EXCEPT !.pc = "done", !.outcome = "raised",
                   !.error = IF r.last_exc # NoError THEN r.last_exc
                             ELSE Error("AgentMoltError",
                                        "Request failed after retries", 0)]

\* for attempt in range(self.max_retries): the next attempt, or after the
\* loop: raise last_exc or AgentMoltError("Request failed after retries")
LoopHead(r) ==
  IF r.attempt < r.max_retries
    THEN [r EXCEPT !.pc = "attempt"]
    ELSE [r EXCEPT !.pc = "done", !.outcome = "raised",
                   !.error = IF r.last_exc # NoError THEN r.last_exc
                             ELSE Error("AgentMoltError",
                                        "Request failed after retries", 0)]

Raise(r, e) == [r EXCEPT !.pc = "done", !.outcome = "raised", !.error = e]

\* Variant of the delay that does not grow with the attempt number.
Backoff_constant(attempt) == BACKOFF_BASE

\* wait = _BACKOFF_BASE * (2 ** attempt)
Backoff(attempt) == BACKOFF_BASE * (2 ^ attempt)

\* The record of a network attempt in the trace of the call.
Attempted(r, resp) ==
  [r EXCEPT !.trace = Append(@, TraceEvent("attempt", "", resp.status, resp.json))]

\* _request of the synchronous client is entered.
AgentMolt_begin(mr) ==
  [NoRequest EXCEPT !.client = "sync", !.pc = "pre", !.max_retries = mr,
                    !.i = 1, !.outcome = "running"]

\* A logical call of the synchronous client begins; hooks come first.
AgentMolt_request(mr) ==
  /\ req.pc = "idle"
  /\ req' = AgentMolt_begin(mr)
  /\ UNCHANGED <<hooks, cmp, local, clock, locking, observers, killswitch>>

\* Variant of the pre-hook loop that walks the list from its end.
AgentMolt_pre_hook_reversed ==
  /\ req.client = "sync"
  /\ req.pc = "pre"
  /\ req.i <= Len(hooks.pre)
  /\ req' = [req EXCEPT !.i = @ + 1,
                        !.trace = Append(@, TraceEvent("pre",
                                     hooks.pre[Len(hooks.pre) + 1 - req.i], 0,
                                     FALSE))]
  /\ UNCHANGED <<hooks, cmp, local, clock, locking, observers, killswitch>>

\* for fn in self._hooks["pre"]: fn(method, path, data)
AgentMolt_pre_hook ==
  /\ req.client = "sync"
  /\ req.pc = "pre"
  /\ req.i <= Len(hooks.pre)
  /\ req' = [req EXCEPT !.i = @ + 1,
                        !.trace = Append(@, TraceEvent("pre", hooks.pre[req.i], 0, FALSE))]
  /\ UNCHANGED <<hooks, cmp, local, clock, locking, observers, killswitch>>

\* the pre-hooks are through: the retry loop is entered
AgentMolt_enter_loop ==
  /\ req.client = "sync"
  /\ req.pc = "pre"
  /\ req.i > Len(hooks.pre)
  /\ req' = LoopHead(req)
  /\ UNCHANGED <<hooks, cmp, local, clock, locking, observers, killswitch>>

\* One pass of the try statement on what urlopen met:
\*  2xx: json.loads of the body (JSONDecodeError is caught by no except
\*       clause), then the post-hooks;
\*  HTTPError: retry if the code is retryable and attempts remain, else
\*       raise by classification;
\*  URLError: retry if attempts remain, else AgentMoltError.
AgentMolt_on_response(r, resp) ==
  IF resp.kind = "http" /\ resp.status \in 200..299
    THEN IF resp.json THEN [r EXCEPT !.pc = "post", !.i = 1]
                      ELSE Raise(r, Error("JSONDecodeError", "", 0))
  ELSE IF resp.kind = "http"
    THEN IF resp.status \in RETRYABLE_CODES /\ r.attempt < r.max_retries - 1
           THEN [r EXCEPT !.pc = "sleep"]
           ELSE Raise(r, Classify(resp.status))
  ELSE IF r.attempt < r.max_retries - 1
    THEN [r EXCEPT !.pc = "sleep"]
    ELSE Raise(r, ConnectionError)

\* urllib.request.urlopen(req): one network attempt
AgentMolt_attempt(resp) ==
  /\ req.client = "sync"
  /\ req.pc = "attempt"
  /\ req' = AgentMolt_on_response(Attempted(req, resp), resp)
  /\ UNCHANGED <<hooks, cmp, local, clock, locking, observers, killswitch>>

\* The error kept in last_exc for the attempt that is being retried.
AgentMolt_retried_error(status) ==
  IF status = 0 THEN ConnectionError
                ELSE Error("AgentMoltError", "server", status)

\* The call after the delay: the loop goes to its next attempt.
AgentMolt_slept(r) ==
  LoopHead(
    [r EXCEPT !.trace = Append(@, TraceEvent("sleep", "", Backoff(r.attempt), FALSE)),
              !.last_exc = AgentMolt_retried_error(r.trace[Len(r.trace)].n),
              !.attempt = @ + 1])

\* time.sleep(wait); last_exc = ...; continue
AgentMolt_sleep ==
  /\ req.client = "sync"
  /\ req.pc = "sleep"
  /\ req' = AgentMolt_slept(req)
  /\ UNCHANGED <<hooks, cmp, local, clock, locking, observers, killswitch>>

\* for fn in self._hooks["post"]: fn(method, path, data, result)
AgentMolt_post_hook ==
  /\ req.client = "sync"
  /\ req.pc = "post"
  /\ req.i <= Len(hooks.post)
  /\ req' = [req EXCEPT !.i = @ + 1,
                        !.trace = Append(@, TraceEvent("post", hooks.post[req.i], 0, FALSE))]
  /\ UNCHANGED <<hooks, cmp, local, clock, locking, observers, killswitch>>

\* return result
AgentMolt_return ==
  /\ req.client = "sync"
  /\ req.pc = "post"
  /\ req.i > Len(hooks.post)
  /\ req' = [req EXCEPT !.pc = "done", !.outcome = "returned"]
  /\ UNCHANGED <<hooks, cmp, local, clock, locking, observers, killswitch>>

\* _request of the asynchronous client is entered: no hooks, the retry
\* loop right away.
AsyncAgentMolt_begin(mr) ==
  LoopHead([NoRequest EXCEPT !.client = "async", !.max_retries = mr,
                             !.outcome = "running"])

\* A logical call of the asynchronous client begins.
AsyncAgentMolt_request(mr) ==
  /\ req.pc = "idle"
  /\ req' = AsyncAgentMolt_begin(mr)
  /\ UNCHANGED <<hooks, cmp, local, clock, locking, observers, killswitch>>

\* One pass of the try statement on what session.request met:
\*  status >= 400: retry if retryable and attempts remain, else raise by
\*       classification (the except clause re-raises an AgentMoltError);
\*  status < 400: return json.loads(body);
\*  any other exception (a network failure, the JSONDecodeError of the
\*       line above): retry if attempts remain, else AgentMoltError.
AsyncAgentMolt_on_response(r, resp) ==
  IF resp.kind = "http" /\ resp.status >= 400
    THEN IF resp.status \in RETRYABLE_CODES /\ r.attempt < r.max_retries - 1
           THEN [r EXCEPT !.pc = "sleep"]
           ELSE Raise(r, Classify(resp.status))
  ELSE IF resp.kind = "http" /\ resp.json
    THEN [r EXCEPT !.pc = "done", !.outcome = "returned"]
  ELSE IF r.attempt < r.max_retries - 1
    THEN [r EXCEPT !.pc = "sleep"]
    ELSE Raise(r, ConnectionError)

\* session.request(method, url, json=data): one network attempt
AsyncAgentMolt_attempt(resp) ==
  /\ req.client = "async"
  /\ req.pc = "attempt"
  /\ req' = AsyncAgentMolt_on_response(Attempted(req, resp), resp)
  /\ UNCHANGED <<hooks, cmp, local, clock, locking, observers, killswitch>>

\* The error kept in last_exc for the attempt that is being retried.
AsyncAgentMolt_retried_error(status) ==
  IF status >= 400 THEN Error("AgentMoltError", "server", status)
                   ELSE ConnectionError

\* The call after the delay: the loop goes to its next attempt.
AsyncAgentMolt_slept(r) ==
  LoopHead(
    [r EXCEPT !.trace = Append(@, TraceEvent("sleep", "", Backoff(r.attempt), FALSE)),
              !.last_exc = AsyncAgentMolt_retried_error(r.trace[Len(r.trace)].n),
              !.attempt = @ + 1])

\* await asyncio.sleep(wait); last_exc = ...; continue
AsyncAgentMolt_sleep ==
  /\ req.client = "async"
  /\ req.pc = "sleep"
  /\ req' = AsyncAgentMolt_slept(req)
  /\ UNCHANGED <<hooks, cmp, local, clock, locking, observers, killswitch>>

\* The caller has the result or the error of the call and goes on.
Caller_resumes ==
  /\ req.pc = "done"
  /\ req' = NoRequest
  /\ UNCHANGED <<hooks, cmp, local, clock, locking, observers, killswitch>>

NextTransport ==
  \/ \E s \in {"pre", "post"}, fn \in HookFns : AgentMolt_add_hook(s, fn)
  \/ \E mr \in RetryInputs : AgentMolt_request(mr)
  \/ AgentMolt_pre_hook
  \/ AgentMolt_enter_loop
  \/ \E resp \in Responses : AgentMolt_attempt(resp)
  \/ AgentMolt_sleep
  \/ AgentMolt_post_hook
  \/ AgentMolt_return
  \/ \E mr \in RetryInputs : AsyncAgentMolt_request(mr)
  \/ \E resp \in Responses : AsyncAgentMolt_attempt(resp)
  \/ AsyncAgentMolt_sleep
  \/ Caller_resumes

SpecTransport == Init /\ [][NextTransport]_vars

\* The same logical call made with each client against a server that
\* answers attempt k with responses[k]; the clients have no hooks.  Each
\* call is run to its end through the steps of its _request.
RECURSIVE AgentMolt_run(_, _)
AgentMolt_run(r, responses) ==
  IF r.pc = "done" THEN r
  ELSE IF r.pc = "pre" THEN AgentMolt_run(LoopHead(r), responses)
  ELSE IF r.pc = "attempt"
    THEN AgentMolt_run(
           AgentMolt_on_response(Attempted(r, responses[r.attempt + 1]),
                                 responses[r.attempt + 1]),
           responses)
  ELSE IF r.pc = "sleep" THEN AgentMolt_run(AgentMolt_slept(r), responses)
  ELSE [r EXCEPT !.pc = "done", !.outcome = "returned"]

RECURSIVE AsyncAgentMolt_run(_, _)
AsyncAgentMolt_run(r, responses) ==
  IF r.pc = "done" THEN r
  ELSE IF r.pc = "attempt"
    THEN AsyncAgentMolt_run(
           AsyncAgentMolt_on_response(Attempted(r, responses[r.attempt + 1]),
                                      responses[r.attempt + 1]),
           responses)
  ELSE AsyncAgentMolt_run(AsyncAgentMolt_slept(r), responses)

ResponseSeqs == [1..MaxResponses -> Responses]

\* A caller makes the call with a client of each kind built with the same
\* max_retries.
Clients_request(mr, responses) ==
  /\ cmp = NoComparison
  /\ cmp' = [max_retries |-> mr, responses |-> responses,
             sync  |-> AgentMolt_run(AgentMolt_begin(mr), responses),
             async |-> AsyncAgentMolt_run(AsyncAgentMolt_begin(mr), responses)]
  /\ UNCHANGED <<hooks, req, local, clock, locking, observers, killswitch>>

NextClients ==
  \E mr \in RetryInputs, responses \in ResponseSeqs :
    Clients_request(mr, responses)

SpecClients == Init /\ [][NextClients]_vars

-----------------------------------------------------------------------------
(* AgentMoltLocal: the hook registry.  add_hook is the only place of       *)
(* local.py that mentions self._hooks; the interface operations go         *)
(* straight to the Store.                                                  *)

LocalStages == {"pre", "post", "before"}

\* add_hook: ValueError for a stage other than 'pre' and 'post', else the
\* callable is appended to the stage's list.
AgentMoltLocal_add_hook(stage, fn) ==
  /\ IF stage \in DOMAIN local_hooks
       THEN /\ Len(local_hooks[stage]) < MaxHooks
            /\ local_hooks' = [local_hooks EXCEPT ![stage] = Append(@, fn)]
            /\ last' = Call("add_hook", "", stage, Returned(None))
       ELSE /\ UNCHANGED local_hooks
            /\ last' = Call("add_hook", "", stage, Raised("ValueError"))
  /\ UNCHANGED <<agents, events, metrics, policies, issued, touched,
                 hook_calls, clock, locking, transport, killswitch>>

\* Hooks are registered and agent and event operations are called.
NextLocalHooks ==
  \/ \E s \in LocalStages, fn \in HookFns : AgentMoltLocal_add_hook(s, fn)
  \/ \E n \in Names : register_agent(n, "gpt-4")
  \/ list_agents
  \/ \E a \in AgentArgs : get_agent(a)
  \/ \E a \in AgentArgs : kill(a)

SpecLocalHooks == Init /\ [][NextLocalHooks]_vars

-----------------------------------------------------------------------------
(* KillSwitch (killswitch.py).  One caller thread constructs the object    *)
(* and calls start() and stop(); every worker runs _poll_loop:             *)
(*   head -> fetch -> (on_kill ->) wait -> head ... -> exited              *)

\* The callback the KillSwitch is built with: none given (_default_kill,
\* which raises SystemExit), one that returns, one that raises an Exception.
OnKillInputs == {"default", "returns", "raises"}

\* What client.get_agent(agent_id) comes back with: an agent in some status,
\* or an exception.
FetchOutcomes == {"running", "killed", "stopped", "error"}

Alive(w) == workers[w].pc # "exited"

\* __init__
KillSwitch_init(on_kill) ==
  /\ ks = NoKillSwitch
  /\ ks' = [ks EXCEPT !.on_kill = on_kill, !.pc = "idle"]
  /\ UNCHANGED <<workers, local, clock, locking, transport, observers>>

\* start(): nothing when self._thread is set and alive; else the stop event
\* is cleared and a new thread is launched and kept in self._thread.
KillSwitch_start ==
  /\ ks.pc = "idle"
  /\ IF ks.thread # 0 /\ Alive(ks.thread)
       THEN UNCHANGED <<ks, workers>>
       ELSE /\ Len(workers) < MaxWorkers
            /\ workers' = Append(workers, NewWorker)
            /\ ks' = [ks EXCEPT !.stop_event = FALSE,
                                !.thread = Len(workers) + 1]
  /\ UNCHANGED <<local, clock, locking, transport, observers>>

\* stop(): self._stop_event.set(), then the join when there is a thread
KillSwitch_stop ==
  /\ ks.pc = "idle"
  /\ ks' = [ks EXCEPT !.stop_event = TRUE,
                      !.pc = IF ks.thread # 0 THEN "join" ELSE "idle"]
  /\ UNCHANGED <<workers, local, clock, locking, transport, observers>>

\* self._thread.join(timeout=...) returns because the thread has ended;
\* self._thread = None
KillSwitch_join_returns ==
  /\ ks.pc = "join"
  /\ ~Alive(ks.thread)
  /\ ks' = [ks EXCEPT !.thread = 0, !.pc = "idle"]
  /\ UNCHANGED <<workers, local, clock, locking, transport, observers>>

\* self._thread.join(timeout=poll_interval + 1) returns because the time
\* is up: the thread is still inside get_agent or inside the callback,
\* the two places where it does not look at the stop event;
\* self._thread = None all the same
KillSwitch_join_times_out ==
  /\ ks.pc = "join"
  /\ workers[ks.thread].pc \in {"fetch", "on_kill"}
  /\ ks' = [ks EXCEPT !.thread = 0, !.pc = "idle"]
  /\ workers' = [workers EXCEPT ![ks.thread].abandoned = TRUE]
  /\ UNCHANGED <<local, clock, locking, transport, observers>>

\* while not self._stop_event.is_set(): into the body, or out of the loop
Worker_loop_test(w) ==
  /\ workers[w].pc = "head"
  /\ workers' =
       IF ks.stop_event
         THEN [workers EXCEPT ![w] = Ended(@, "stop")]
         ELSE [workers EXCEPT ![w].pc = "fetch",
                              ![w].polled_after_kill = @ \/ workers[w].kills > 0]
  /\ UNCHANGED <<ks, local, clock, locking, transport, observers>>

\* Variant of the fetch in which an exception out of get_agent ends the
\* thread.
Worker_fetch_error_fatal(w, outcome) ==
  /\ workers[w].pc = "fetch"
  /\ IF outcome \in {"killed", "stopped"}
       THEN /\ workers[w].kills < MaxKills
            /\ workers' = [workers EXCEPT ![w].pc = "on_kill",
                                          ![w].kills = @ + 1,
                                          ![w].failed = FALSE]
       ELSE IF outcome = "error"
         THEN workers' = [workers EXCEPT ![w] = Ended(@, "Exception")]
         ELSE workers' = [workers EXCEPT ![w].pc = "wait",
                                         ![w].failed = FALSE]
  /\ UNCHANGED <<ks, local, clock, locking, transport, observers>>

\* agent = self.client.get_agent(self.agent_id) comes back: status killed or
\* stopped leads into self.on_kill(); any other status, and an exception
\* (except Exception: log), lead to the wait.
Worker_fetch(w, outcome) ==
  /\ workers[w].pc = "fetch"
  /\ IF outcome \in {"killed", "stopped"}
       THEN /\ workers[w].kills < MaxKills
            /\ workers' = [workers EXCEPT ![w].pc = "on_kill",
                                          ![w].kills = @ + 1,
                                          ![w].failed = FALSE]
       ELSE workers' = [workers EXCEPT ![w].pc = "wait",
                                       ![w].failed = (outcome = "error")]
  /\ UNCHANGED <<ks, local, clock, locking, transport, observers>>

\* self.on_kill() ends: SystemExit is re-raised and ends the thread
\* (except SystemExit: raise); a return is followed by `return`; any other
\* exception is logged (except Exception) and the wait follows.
Worker_on_kill(w) ==
  /\ workers[w].pc = "on_kill"
  /\ workers' =
       IF ks.on_kill = "default"
         THEN [workers EXCEPT ![w] = Ended(@, "SystemExit")]
       ELSE IF ks.on_kill = "returns"
         THEN [workers EXCEPT ![w] = Ended(@, "return")]
         ELSE [workers EXCEPT ![w].pc = "wait"]
  /\ UNCHANGED <<ks, local, clock, locking, transport, observers>>

\* poll_interval seconds have passed since the worker began its wait
Interval_elapses(w) ==
  /\ workers[w].pc = "wait"
  /\ ~workers[w].due
  /\ workers' = [workers EXCEPT ![w].due = TRUE]
  /\ UNCHANGED <<ks, local, clock, locking, transport, observers>>

\* Variant of the wait that sleeps the whole interval whatever the event.
Worker_wait_uninterruptible(w) ==
  /\ workers[w].pc = "wait"
  /\ workers[w].due
  /\ workers' = [workers EXCEPT ![w].pc = "head", ![w].due = FALSE]
  /\ UNCHANGED <<ks, local, clock, locking, transport, observers>>

\* self._stop_event.wait(self.poll_interval) returns: the event is set, or
\* the interval is over
Worker_wait(w) ==
  /\ workers[w].pc = "wait"
  /\ ks.stop_event \/ workers[w].due
  /\ workers' = [workers EXCEPT ![w].pc = "head", ![w].due = FALSE]
  /\ UNCHANGED <<ks, local, clock, locking, transport, observers>>

NextKillSwitch ==
  \/ \E k \in OnKillInputs : KillSwitch_init(k)
  \/ KillSwitch_start
  \/ KillSwitch_stop
  \/ KillSwitch_join_returns
  \/ KillSwitch_join_times_out
  \/ \E w \in DOMAIN workers : Worker_loop_test(w)
  \/ \E w \in DOMAIN workers, o \in FetchOutcomes : Worker_fetch(w, o)
  \/ \E w \in DOMAIN workers : Worker_on_kill(w)
  \/ \E w \in DOMAIN workers : Interval_elapses(w)
  \/ \E w \in DOMAIN workers : Worker_wait(w)

SpecKillSwitch == Init /\ [][NextKillSwitch]_vars

\* The threads are scheduled: a worker that can test the loop condition or
\* return from its wait does so, and a join whose thread has ended returns.
\* Nothing is assumed about when a fetch comes back, a callback ends or an
\* interval is over.
WorkerProgress(w) ==
  /\ WF_vars(w \in DOMAIN workers /\ Worker_loop_test(w))
  /\ WF_vars(w \in DOMAIN workers /\ Worker_wait(w))

\* The same for a KillSwitch built without a callback.
NextKillSwitchDefault ==
  \/ KillSwitch_init("default")
  \/ KillSwitch_start
  \/ KillSwitch_stop
  \/ KillSwitch_join_returns
  \/ KillSwitch_join_times_out
  \/ \E w \in DOMAIN workers : Worker_loop_test(w)
  \/ \E w \in DOMAIN workers, o \in FetchOutcomes : Worker_fetch(w, o)
  \/ \E w \in DOMAIN workers : Worker_on_kill(w)
  \/ \E w \in DOMAIN workers : Interval_elapses(w)
  \/ \E w \in DOMAIN workers : Worker_wait(w)

SpecKillSwitchFair ==
  /\ Init /\ [][NextKillSwitchDefault]_vars
  /\ WF_vars(KillSwitch_join_returns)
  /\ \A w \in 1..MaxWorkers : WorkerProgress(w)

-----------------------------------------------------------------------------
(* The create methods of the Store, thread by thread.  create_agent,       *)
(* create_event and add_policy each read the uid and the clock first and   *)
(* enter the locked section with the INSERT afterwards, so another thread  *)
(* and the clock can move between the two.  The tables keep their rows in  *)
(* the order of the INSERTs.                                               *)

CreateMethods == {"create_agent", "create_event", "add_policy"}

PendingCount == Cardinality({t \in Threads : pending[t] # NoCreate})

\* aid = self._uid(); now = self._now()
Store_create_reads_clock(t, method) ==
  /\ pending[t] = NoCreate
  /\ RowCount + PendingCount < MaxRows
  /\ pending' = [pending EXCEPT ![t] = [method |-> method, now |-> Store_now]]
  /\ UNCHANGED <<lock, thr, run, local, clock, transport, observers, killswitch>>

\* with self._lock: INSERT ... VALUES (..., now); commit; and the return of
\* the record
Store_create_inserts(t) ==
  /\ pending[t] # NoCreate
  /\ lock = None
  /\ LET now == pending[t].now IN
       CASE pending[t].method = "create_agent" ->
              LET aid == AgentUids[Len(agents) + 1]
                  rec == AgentRow(aid, "bot", "", "idle", now, now)
              IN  /\ agents' = Store_create_agent(agents, aid, "bot", "", now)
                  /\ last' = Call("register_agent", aid, None, Returned(rec))
                  /\ issued' = issued \cup {rec}
                  /\ UNCHANGED <<events, policies>>
         [] pending[t].method = "create_event" ->
              LET rec == EventRow(EventUids[Len(events) + 1], "a1", "x", "",
                                  "allowed", now)
              IN  /\ events' = Append(events, rec)
                  /\ last' = Call("log_event", "a1", "x", Returned(rec))
                  /\ UNCHANGED <<agents, policies, issued>>
         [] pending[t].method = "add_policy" ->
              LET rec == PolicyRow(PolicyUids[Len(policies) + 1], "denylist",
                                   "x", "", now)
              IN  /\ policies' = Append(policies, rec)
                  /\ last' = Call("add_policy", "", None,
                                  Returned([id |-> rec.id,
                                            rule_type |-> "denylist",
                                            value |-> "x", agent_id |-> ""]))
                  /\ UNCHANGED <<agents, events, issued>>
  /\ pending' = [pending EXCEPT ![t] = NoCreate]
  /\ UNCHANGED <<metrics, touched, lock, thr, run, clock, transport, observers,
                 killswitch>>

\* Time passes: the next reading of the wall clock is later.
tick ==
  /\ clock < MaxClock
  /\ clock' = clock + 1
  /\ UNCHANGED <<local, locking, transport, observers, killswitch>>

\* The agent operations while time passes between the calls.
NextAgents ==
  \/ \E n \in Names : register_agent(n, "gpt-4")
  \/ \E a \in AgentArgs : get_agent(a)
  \/ \E a \in AgentArgs, s \in StatusInputs : update_status(a, s)
  \/ \E a \in AgentArgs : kill(a)
  \/ tick

SpecAgents == Init /\ [][NextAgents]_vars

\* Values log_metric is called with for tokens_used and cost (in units of
\* 0.5): the store takes any number, also one below zero.
MetricTokenInputs == {-1, 1, 2}
MetricCostInputs == {-1, 0, 1}

\* Metrics are logged for one agent under a token and a cost limit, and
\* the policy is checked.
NextMetrics ==
  \/ \E tk \in MetricTokenInputs, c \in MetricCostInputs :
       log_metric("a1", tk, c)
  \/ add_policy("token_limit", "2", "")
  \/ add_policy("cost_limit", "0.5", "a1")
  \/ check_policy("a1", "x")

SpecMetrics == Init /\ [][NextMetrics]_vars

\* Threads create entities while time passes, and the listings are called.
NextListing ==
  \/ \E t \in Threads, m \in CreateMethods : Store_create_reads_clock(t, m)
  \/ \E t \in Threads : Store_create_inserts(t)
  \/ tick
  \/ list_agents
  \/ list_events("a1")
  \/ list_policies("")

SpecListing == Init /\ [][NextListing]_vars

-----------------------------------------------------------------------------
(* Store.check_policy while other threads write.  The method holds the     *)
(* lock only inside list_policies and inside each get_metrics_summary it   *)
(* calls; between these sections another thread's add_policy or            *)
(* create_metric may take the lock and commit.  Every locked section is    *)
(* one step.                                                               *)

\* Rules the writers add and metric values they log, all of the global
\* scope and of agent a1.
RaceRules == { <<"cost_limit", "0.5">>, <<"token_limit", "2">>,
               <<"denylist", "x">> }
RaceMetrics == { <<2, 1>>, <<2, 0>> }

\* The first two loops of check_policy on the fetched rule list: the
\* denial they return, or that they decide nothing.
Undecided == [raised |-> "undecided", ret |-> None]
ListPasses(listed, action) ==
  LET d == FirstOf({ i \in 1..Len(listed) :
             listed[i].rule_type = "denylist" /\ action = listed[i].value })
      a == FirstOf({ i \in 1..Len(listed) : listed[i].rule_type = "allowlist" })
      allowlist_values ==
        { listed[i].value : i \in { j \in 1..Len(listed) :
                                      listed[j].rule_type = "allowlist" } }
  IN  IF d # 0
        THEN Returned(PolicyResult(FALSE, "denied by policy", listed[d].id))
      ELSE IF a # 0 /\ action \notin allowlist_values
        THEN Returned(PolicyResult(FALSE, "not in allowlist", listed[a].id))
      ELSE Undecided

\* The rule at which the third loop, at rule i, next calls
\* get_metrics_summary; Len(listed) + 1 when it calls it no more.
NextLimitRule(listed, i) ==
  LET S == { j \in i..Len(listed) :
               listed[j].rule_type \in {"cost_limit", "token_limit"} }
  IN  IF S = {} THEN Len(listed) + 1 ELSE CHOOSE j \in S : \A k \in S : j <= k

\* What the calls in progress have seen of the store, after a commit that
\* left the tables pols, mets.
Observed(pols, mets) ==
  [t \in Threads |->
     IF run[t].method = "check_policy"
       THEN [run[t] EXCEPT !.snaps = @ \cup
               {Store_check_policy(pols, mets, run[t].aid, run[t].arg)}]
       ELSE run[t]]

\* A thread calls check_policy(aid, action).
Store_check_policy_call(t, aid, action) ==
  /\ run[t].pc = "idle"
  /\ run' = [run EXCEPT ![t] =
               [NoRun EXCEPT !.method = "check_policy", !.pc = "list",
                             !.aid = aid, !.arg = action,
                             !.snaps = {Store_check_policy(policies, metrics,
                                                           aid, action)}]]
  /\ UNCHANGED <<lock, thr, pending, local, clock, transport, observers,
                 killswitch>>

\* policies = self.list_policies(agent_id), and the two loops over the
\* list it returned
Store_check_policy_lists(t) ==
  /\ run[t].method = "check_policy"
  /\ run[t].pc = "list"
  /\ lock = None
  /\ LET listed == Store_list_policies(policies, run[t].aid)
         decided == ListPasses(listed, run[t].arg)
     IN  run' = [run EXCEPT ![t] =
                   IF decided # Undecided
                     THEN [@ EXCEPT !.pc = "done", !.listed = listed,
                                    !.result = decided]
                     ELSE [@ EXCEPT !.pc = "limits", !.listed = listed,
                                    !.i = 1]]
  /\ UNCHANGED <<lock, thr, pending, local, clock, transport, observers,
                 killswitch>>

\* The third loop up to and including its next get_metrics_summary(agent_id)
\* and the comparison with the limit, or to its end
Store_check_policy_limit(t) ==
  /\ run[t].method = "check_policy"
  /\ run[t].pc = "limits"
  /\ lock = None
  /\ LET listed == run[t].listed
         j == NextLimitRule(listed, run[t].i)
         summary == Store_get_metrics_summary(metrics, run[t].aid)
     IN  run' = [run EXCEPT ![t] =
           IF j > Len(listed)
             THEN [@ EXCEPT !.pc = "done",
                            !.result = Returned(PolicyResult(TRUE, "allowed", None))]
           ELSE IF listed[j].rule_type = "cost_limit"
                   /\ summary.cost >= FloatOf(listed[j].value)
             THEN [@ EXCEPT !.pc = "done",
                            !.result = Returned(PolicyResult(FALSE,
                                         "Cost limit exceeded", listed[j].id))]
           ELSE IF listed[j].rule_type = "token_limit"
                   /\ summary.tokens_used >= IntOf(listed[j].value)
             THEN [@ EXCEPT !.pc = "done",
                            !.result = Returned(PolicyResult(FALSE,
                                         "Token limit exceeded", listed[j].id))]
           ELSE [@ EXCEPT !.i = j + 1]]
  /\ UNCHANGED <<lock, thr, pending, local, clock, transport, observers,
                 killswitch>>

\* return PolicyResult(...): the caller has the result
Store_check_policy_returns(t) ==
  /\ run[t].method = "check_policy"
  /\ run[t].pc = "done"
  /\ run' = [run EXCEPT ![t] = NoRun]
  /\ UNCHANGED <<lock, thr, pending, local, clock, transport, observers,
                 killswitch>>

\* Another thread's add_policy: its INSERT and commit under the lock
Writer_add_policy(rule_type, value, aid) ==
  /\ RowCount < MaxRows
  /\ lock = None
  /\ LET rec == PolicyRow(PolicyUids[Len(policies) + 1], rule_type, value, aid,
                          Store_now)
     IN  /\ policies' = Append(policies, rec)
         /\ last' = Call("add_policy", aid, None,
                         Returned([id |-> rec.id, rule_type |-> rule_type,
                                   value |-> value, agent_id |-> aid]))
         /\ run' = Observed(policies', metrics)
  /\ UNCHANGED <<agents, events, metrics, issued, touched, lock, thr, pending,
                 clock, transport, observers, killswitch>>

\* Another thread's create_metric: its INSERT and commit under the lock
Writer_create_metric(aid, tokens, cost) ==
  /\ RowCount < MaxRows
  /\ lock = None
  /\ LET rec == MetricRow(MetricUids[Len(metrics) + 1], aid, tokens, cost, 0, 0)
     IN  /\ metrics' = Append(metrics, rec)
         /\ last' = Call("log_metric", aid, None, Returned(rec))
         /\ run' = Observed(policies, metrics')
  /\ UNCHANGED <<agents, events, policies, issued, touched, lock, thr, pending,
                 clock, transport, observers, killswitch>>

\* Thread t1 checks the policy of agent a1 while rules are added and
\* metrics are logged.
NextCheckRace ==
  \/ \E x \in {"x", "y"} : Store_check_policy_call("t1", "a1", x)
  \/ Store_check_policy_lists("t1")
  \/ Store_check_policy_limit("t1")
  \/ Store_check_policy_returns("t1")
  \/ \E r \in RaceRules : Writer_add_policy(r[1], r[2], "")
  \/ \E m \in RaceMetrics : Writer_create_metric("a1", m[1], m[2])

SpecCheckRace == Init /\ [][NextCheckRace]_vars

-----------------------------------------------------------------------------
(* update_status and kill while other threads do the same.                 *)
(* Store.update_agent_status reads the clock, runs its UPDATE in one       *)
(* locked section and returns self.get_agent(agent_id), a second locked    *)
(* section; AgentMoltLocal.kill looks the agent up (a locked section)      *)
(* before Store.kill_agent.  Every locked section is one step.             *)

\* Statuses the racing update_status calls write.
RaceStatuses == {"running", "stopped"}

StatusWriters == {"update_agent_status", "kill_agent"}

\* AgentMoltLocal.update_status(aid, status) is called:
\* Store.update_agent_status begins with now = self._now()
Store_update_agent_status_call(t, aid, status) ==
  /\ run[t].pc = "idle"
  /\ run' = [run EXCEPT ![t] =
               [NoRun EXCEPT !.method = "update_agent_status", !.pc = "update",
                             !.aid = aid, !.arg = status, !.now = Store_now]]
  /\ UNCHANGED <<lock, thr, pending, local, clock, transport, observers,
                 killswitch>>

\* AgentMoltLocal.kill(aid) is called: its parameter is the agent id
AgentMoltLocal_kill_call(t, aid) ==
  /\ run[t].pc = "idle"
  /\ run' = [run EXCEPT ![t] =
               [NoRun EXCEPT !.method = "kill_agent", !.pc = "lookup",
                             !.aid = aid, !.arg = "killed"]]
  /\ UNCHANGED <<lock, thr, pending, local, clock, transport, observers,
                 killswitch>>

\* agent = self.store.get_agent(agent_id); NotFoundError when there is
\* none, else Store.kill_agent -> update_agent_status(agent_id, "killed"),
\* which reads the clock
AgentMoltLocal_kill_lookup(t) ==
  /\ run[t].method = "kill_agent"
  /\ run[t].pc = "lookup"
  /\ lock = None
  /\ IF AgentFound(agents, run[t].aid)
       THEN /\ run' = [run EXCEPT ![t].pc = "update", ![t].now = Store_now]
            /\ UNCHANGED last
       ELSE /\ run' = [run EXCEPT ![t].pc = "done",
                                  ![t].result = Raised("NotFoundError")]
            /\ last' = Call("kill", run[t].aid, None, Raised("NotFoundError"))
  /\ UNCHANGED <<agents, events, metrics, policies, issued, touched, lock, thr,
                 pending, clock, transport, observers, killswitch>>

\* with self._lock: UPDATE agents SET status=?, updated_at=? WHERE id=?;
\* commit
Store_update_agent_status_updates(t) ==
  /\ run[t].method \in StatusWriters
  /\ run[t].pc = "update"
  /\ lock = None
  /\ agents' = Store_update_agent_status(agents, run[t].aid, run[t].arg,
                                         run[t].now)
  /\ touched' = IF AgentFound(agents, run[t].aid)
                  THEN touched \cup {run[t].aid} ELSE touched
  /\ run' = [u \in Threads |->
               IF u = t THEN [run[u] EXCEPT !.pc = "get"]
               ELSE IF /\ run[u].method \in StatusWriters
                       /\ run[u].pc = "get"
                       /\ run[u].aid = run[t].aid
                 THEN [run[u] EXCEPT !.snaps = @ \cup {run[t].arg}]
                 ELSE run[u]]
  /\ UNCHANGED <<events, metrics, policies, last, issued, lock, thr, pending,
                 clock, transport, observers, killswitch>>

\* return self.get_agent(agent_id), a locked section of its own;
\* update_status raises NotFoundError on None and returns the Agent,
\* kill_agent drops it and returns {"status": "killed", "agent_id": ...}
Store_update_agent_status_gets(t) ==
  /\ run[t].method \in StatusWriters
  /\ run[t].pc = "get"
  /\ lock = None
  /\ LET outcome ==
           IF run[t].method = "kill_agent"
             THEN Returned([status |-> "killed", agent_id |-> run[t].aid])
             ELSE get_agent_outcome(agents, run[t].aid)
     IN  /\ run' = [run EXCEPT ![t].pc = "done", ![t].result = outcome]
         /\ last' = IF run[t].method = "kill_agent"
                      THEN Call("kill", run[t].aid, None, outcome)
                      ELSE Call("update_status", run[t].aid, run[t].arg, outcome)
  /\ UNCHANGED <<agents, events, metrics, policies, issued, touched, lock, thr,
                 pending, clock, transport, observers, killswitch>>

\* The caller has the record or the error and goes on.
Store_update_agent_status_returns(t) ==
  /\ run[t].method \in StatusWriters
  /\ run[t].pc = "done"
  /\ run' = [run EXCEPT ![t] = NoRun]
  /\ UNCHANGED <<lock, thr, pending, local, clock, transport, observers,
                 killswitch>>

\* Ids the racing callers pass: the first one register_agent has handed
\* out, and one it never hands out.
KnownIds == ({ r.id : r \in issued } \cap {"a1"}) \cup {"zz"}

\* One agent is registered, and two threads set its status and kill it.
\* The race is over the status column; the clock stands still meanwhile.
NextStatusRace ==
  \/ agents = <<>> /\ register_agent("bot", "")
  \/ \E t \in Threads, a \in KnownIds \ {"zz"}, s \in RaceStatuses :
       Store_update_agent_status_call(t, a, s)
  \/ \E t \in Threads, a \in KnownIds : AgentMoltLocal_kill_call(t, a)
  \/ \E t \in Threads : AgentMoltLocal_kill_lookup(t)
  \/ \E t \in Threads : Store_update_agent_status_updates(t)
  \/ \E t \in Threads : Store_update_agent_status_gets(t)
  \/ \E t \in Threads : Store_update_agent_status_returns(t)

SpecStatusRace == Init /\ [][NextStatusRace]_vars

-----------------------------------------------------------------------------
(* Properties of the policy evaluator.  `last` holds the outcome of the     *)
(* most recent call, made on the tables of the same state (check_policy     *)
(* changes none of them).                                                   *)

IsCheck == last.op = "check_policy"
CheckReturned == IsCheck /\ last.raised = None

\* Indices of the rules in scope of a check for agent a, that is, of the
\* rules list_policies(a) lists: every rule for the empty id, the global
\* rules and the rules of agent a otherwise.
ScopeRules(a) ==
  { i \in 1..Len(policies) :
      a = "" \/ policies[i].agent_id = a \/ policies[i].agent_id = "" }

ScopeOfType(a, t) == { i \in ScopeRules(a) : policies[i].rule_type = t }

IdsOf(S) == { policies[i].id : i \in S }

MinOf(S) == CHOOSE i \in S : \A j \in S : i <= j

\* In-scope denylist rules naming the action.
DenyMatches(a, x) ==
  { i \in ScopeOfType(a, "denylist") : policies[i].value = x }

AllowValues(a) == { policies[i].value : i \in ScopeOfType(a, "allowlist") }

\* Neither the denylist pass nor the allowlist pass decides (a, x).
NoListDecides(a, x) ==
  /\ DenyMatches(a, x) = {}
  /\ ScopeOfType(a, "allowlist") # {} => x \in AllowValues(a)

\* The agent's accumulated metrics, summed row by row.
TotalCost(a) ==
  LET f[n \in 0..Len(metrics)] ==
        IF n = 0 THEN 0
        ELSE f[n - 1] + (IF metrics[n].agent_id = a THEN metrics[n].cost ELSE 0)
  IN  f[Len(metrics)]

TotalTokens(a) ==
  LET f[n \in 0..Len(metrics)] ==
        IF n = 0 THEN 0
        ELSE f[n - 1]
             + (IF metrics[n].agent_id = a THEN metrics[n].tokens_used ELSE 0)
  IN  f[Len(metrics)]

\* Thresholds of the rule values that are numbers: "0.5" is one unit of
\* cost, "2" is four units of cost or two tokens.
CostThreshold  == [v \in {"0.5", "2"} |-> IF v = "0.5" THEN 1 ELSE 4]
TokenThreshold == [v \in {"2"} |-> 2]

\* In-scope limit rules with a numeric threshold the agent has reached.
ExceededCost(a) ==
  { i \in ScopeOfType(a, "cost_limit") :
      /\ policies[i].value \in DOMAIN CostThreshold
      /\ TotalCost(a) >= CostThreshold[policies[i].value] }

ExceededTokens(a) ==
  { i \in ScopeOfType(a, "token_limit") :
      /\ policies[i].value \in DOMAIN TokenThreshold
      /\ TotalTokens(a) >= TokenThreshold[policies[i].value] }

\* C1: a denylist rule in scope naming the action makes check_policy deny,
\* with the policy_id of such a denylist rule, whether or not an allowlist
\* rule permits the action and whichever of the two was created first.
C1_DenylistPrecedesAllowlist ==
  (IsCheck /\ DenyMatches(last.agent_id, last.arg) # {}) =>
     /\ last.raised = None
     /\ last.ret.allowed = FALSE
     /\ last.ret.policy_id \in IdsOf(DenyMatches(last.agent_id, last.arg))

\* C1 witness: a denied check of an action that an allowlist rule created
\* before the denylist rule permits.
C1_Witness ==
  /\ CheckReturned
  /\ last.ret.allowed = FALSE
  /\ \E i \in ScopeOfType(last.agent_id, "allowlist") :
       \E j \in DenyMatches(last.agent_id, last.arg) :
         i < j /\ policies[i].value = last.arg

C2_WitnessAllowed ==
  /\ CheckReturned
  /\ last.ret.allowed
  /\ \E i \in ScopeOfType(last.agent_id, "allowlist") :
       i # MinOf(ScopeOfType(last.agent_id, "allowlist"))
       /\ policies[i].value = last.arg

\* C3: when no denylist or allowlist rule decides, check_policy denies if
\* and only if an in-scope cost_limit or token_limit rule has a threshold
\* the agent's total has reached (total = threshold included), the denial
\* names such a rule, and otherwise the check allows.
C3_LimitsDecide ==
  (IsCheck /\ NoListDecides(last.agent_id, last.arg)) =>
     LET exceeded == ExceededCost(last.agent_id) \cup ExceededTokens(last.agent_id)
     IN  /\ last.raised = None
         /\ last.ret.allowed <=> exceeded = {}
         /\ ~last.ret.allowed => last.ret.policy_id \in IdsOf(exceeded)

\* C3 on the stores whose rule values are all numbers.
C3_LimitsDecideNumericRules ==
  (\A i \in 1..Len(policies) : policies[i].value # "abc") => C3_LimitsDecide

LimitReasons == {"Cost limit exceeded", "Token limit exceeded"}

ReasonOfType == [t \in {"cost_limit", "token_limit"} |->
                   IF t = "cost_limit" THEN "Cost limit exceeded"
                                       ELSE "Token limit exceeded"]

\* C4: when the agent has reached both an in-scope cost_limit rule and an
\* in-scope token_limit rule (and no list rule decides), the result the
\* check returns carries the id of the first exceeded cost_limit rule and
\* the cost reason, whatever the creation order of the rules.
C4_CostBeforeToken ==
  LET a == last.agent_id
  IN  (/\ CheckReturned
       /\ NoListDecides(a, last.arg)
       /\ ExceededCost(a) # {}
       /\ ExceededTokens(a) # {}) =>
         last.ret = PolicyResult(FALSE, "Cost limit exceeded",
                                 policies[MinOf(ExceededCost(a))].id)

\* C4 as amended: every denial by a limit rule carries the id and the
\* reason of the first exceeded limit rule in listing order, cost_limit or
\* token_limit alike.
C4_FirstExceededLimitDecides ==
  LET a == last.agent_id
      exceeded == ExceededCost(a) \cup ExceededTokens(a)
  IN  (CheckReturned /\ last.ret.reason \in LimitReasons) =>
         /\ exceeded # {}
         /\ last.ret = PolicyResult(FALSE,
                         ReasonOfType[policies[MinOf(exceeded)].rule_type],
                         policies[MinOf(exceeded)].id)

\* C4 witness: a token_limit rule created before a cost_limit rule, both
\* reached, and the denial names the token_limit rule.
C4_Witness ==
  LET a == last.agent_id
  IN  /\ CheckReturned
      /\ last.ret.reason = "Token limit exceeded"
      /\ ExceededCost(a) # {}
      /\ ExceededTokens(a) # {}
      /\ MinOf(ExceededTokens(a)) < MinOf(ExceededCost(a))

\* C5: a check for an agent with no global rule and no rule of its own is
\* allowed with reason "allowed" and no policy_id.
C5_NoRulesAllows ==
  (IsCheck /\ ~\E i \in 1..Len(policies) :
                 policies[i].agent_id \in {"", last.agent_id}) =>
     /\ last.raised = None
     /\ last.ret = PolicyResult(TRUE, "allowed", None)

\* The same on the checks made with a non-empty agent id, for which
\* list_policies filters the rules by agent.
C5_NoRulesAllowsNonEmptyId ==
  (IsCheck /\ last.agent_id # ""
           /\ ~\E i \in 1..Len(policies) :
                 policies[i].agent_id \in {"", last.agent_id}) =>
     /\ last.raised = None
     /\ last.ret = PolicyResult(TRUE, "allowed", None)

\* A check of the second agent allowed while a cost_limit rule of the first
\* agent is stored and the second agent's cost reaches its threshold.
C5_Witness ==
  /\ CheckReturned
  /\ last.agent_id = "a2"
  /\ last.ret.allowed
  /\ \E i \in 1..Len(policies) :
       policies[i].agent_id = "a1" /\ policies[i].rule_type = "cost_limit"
  /\ TotalCost("a2") >= 1

\* C6: no call of check_policy ends in an error.
C6_NeverThrows == IsCheck => last.raised = None

-----------------------------------------------------------------------------
(* Properties of the whole interface *)

\* Thresholds of the in-scope limit rules whose value is a number.
CostThresholds(a) ==
  { CostThreshold[policies[i].value] :
      i \in { j \in ScopeOfType(a, "cost_limit") :
                policies[j].value \in DOMAIN CostThreshold } }

TokenThresholds(a) ==
  { TokenThreshold[policies[i].value] :
      i \in { j \in ScopeOfType(a, "token_limit") :
                policies[j].value \in DOMAIN TokenThreshold } }

\* The decision in `last` agrees with the totals over every metric row of
\* the store: a limit denial names a rule whose threshold the total has
\* reached, and an allow means the total is below every threshold in scope.
DecisionCountsEveryRow ==
  LET a == last.agent_id
  IN  CheckReturned =>
        /\ last.ret.reason = "Cost limit exceeded" =>
             last.ret.policy_id \in IdsOf(ExceededCost(a))
        /\ last.ret.reason = "Token limit exceeded" =>
             last.ret.policy_id \in IdsOf(ExceededTokens(a))
        /\ last.ret.allowed =>
             /\ \A t \in CostThresholds(a) : TotalCost(a) < t
             /\ \A t \in TokenThresholds(a) : TotalTokens(a) < t

\* C7: a check_policy call changes none of the four tables, and its
\* decision counts every metric row the store holds when it is made.
C7_CheckReadOnlyUncached ==
  [][ last'.op = "check_policy" =>
        /\ agents' = agents /\ events' = events
        /\ metrics' = metrics /\ policies' = policies
        /\ DecisionCountsEveryRow' ]_view

\* C7 witness: a check denied by the cost limit right after the log_metric
\* call that brought the total to the threshold, with an agent stored.
C7_Witness ==
  /\ CheckReturned
  /\ last.ret.reason = "Cost limit exceeded"
  /\ Len(agents) > 0
  /\ TotalCost(last.agent_id) = 1
  /\ metrics[Len(metrics)].agent_id = last.agent_id

IssuedIds == { rec.id : rec \in issued }

\* C8: get_agent on an id register_agent has returned yields a record with
\* the id, name and model of the returned one, and with status "idle" while
\* no update_status or kill has written the agent's status.
C8_GetAfterRegister ==
  \A rec \in issued :
    LET got == get_agent_outcome(agents, rec.id)
    IN  /\ got.raised = None
        /\ got.ret.id = rec.id
        /\ got.ret.name = rec.name
        /\ got.ret.model = rec.model
        /\ rec.id \notin touched => got.ret.status = "idle"

\* C8 witness: get_agent returns the first agent, still idle, after a
\* second agent was registered and had its status written.
C8_Witness ==
  /\ last.op = "get_agent"
  /\ last.agent_id = "a1"
  /\ last.raised = None
  /\ last.ret.status = "idle"
  /\ "a2" \in touched

\* C9: kill, get_agent and update_status on an id that register_agent never
\* returned raise NotFoundError and change none of the four tables.
C9_UnknownIdNotFound ==
  [][ (/\ last'.op \in {"kill", "get_agent", "update_status"}
       /\ last'.agent_id \notin IssuedIds) =>
        /\ last'.raised = "NotFoundError"
        /\ agents' = agents /\ events' = events
        /\ metrics' = metrics /\ policies' = policies ]_view

\* C9 witness: kill of an unknown id raised NotFoundError while another
\* agent is stored.
C9_Witness ==
  /\ last.op = "kill"
  /\ last.agent_id \notin IssuedIds
  /\ last.raised = "NotFoundError"
  /\ Len(agents) > 0

\* The status get_agent reports for a stored agent.
StatusOf(aid) == get_agent_outcome(agents, aid).ret.status

\* C10: once get_agent reports "killed" for an agent it keeps doing so
\* across every step that is not an update_status call on that agent.
C10_KilledUntilUpdate ==
  [][ \A aid \in IssuedIds :
        (/\ StatusOf(aid) = "killed"
         /\ ~(last'.op = "update_status" /\ last'.agent_id = aid)) =>
           StatusOf(aid)' = "killed" ]_view

\* C10 witness: the first agent is still killed after update_status ran on
\* the second agent.
C10_Witness ==
  /\ last.op = "update_status"
  /\ last.agent_id = "a2"
  /\ last.raised = None
  /\ AgentFound(agents, "a1")
  /\ StatusOf("a1") = "killed"

-----------------------------------------------------------------------------
(* Unknown agent ids *)

\* The most recent call named an agent id register_agent never returned.
UnknownId == last.agent_id \notin IssuedIds

\* C11: get_agent, update_status, kill, list_events and check_policy on an
\* unknown agent id all fail with NotFoundError.
C11_UnknownIdFailsEverywhere ==
  (/\ last.op \in {"get_agent", "update_status", "kill", "list_events",
                   "check_policy"}
   /\ UnknownId) => last.raised = "NotFoundError"

\* C11 as amended: on an unknown agent id get_agent, update_status and kill
\* fail with NotFoundError; list_events returns the events logged under
\* that id (none if there are none) and check_policy never signals
\* NotFoundError; log_event and log_metric succeed and store their row.
C11_UnknownIdOutcomes ==
  UnknownId =>
    /\ last.op \in {"get_agent", "update_status", "kill"} =>
          last.raised = "NotFoundError"
    /\ last.op = "list_events" =>
          /\ last.raised = None
          /\ Len(last.ret) =
               Cardinality({ i \in 1..Len(events) :
                               events[i].agent_id = last.agent_id })
          /\ \A i \in 1..Len(last.ret) : last.ret[i].agent_id = last.agent_id
    /\ last.op = "check_policy" => last.raised # "NotFoundError"
    /\ last.op = "log_event" =>
          /\ last.raised = None
          /\ Len(events) > 0
          /\ events[Len(events)] = last.ret
          /\ last.ret.agent_id = last.agent_id
    /\ last.op = "log_metric" =>
          /\ last.raised = None
          /\ Len(metrics) > 0
          /\ metrics[Len(metrics)] = last.ret
          /\ last.ret.agent_id = last.agent_id

\* C11 witness: list_events on an unknown id returns an event that
\* log_event stored under that id.
C11_Witness ==
  /\ last.op = "list_events"
  /\ UnknownId
  /\ last.raised = None
  /\ Len(last.ret) >= 1

-----------------------------------------------------------------------------
(* Status updates *)

\* Position of the row of agent aid.
RowOf(tbl, aid) == CHOOSE i \in 1..Len(tbl) : tbl[i].id = aid

\* C12: update_status(id, s) on a stored agent sets that row's status to s
\* and its updated_at to the clock reading of the call, changes no other
\* field of the row and no other row, and returns the row as it then is.
C12_UpdateStatusEffect ==
  [][ (/\ clock' = clock
       /\ last'.op = "update_status"
       /\ AgentFound(agents, last'.agent_id)) =>
        LET i == RowOf(agents, last'.agent_id)
        IN  /\ Len(agents') = Len(agents)
            /\ \A j \in 1..Len(agents) : j # i => agents'[j] = agents[j]
            /\ agents'[i] = [agents[i] EXCEPT !.status = last'.arg,
                                              !.updated_at = clock]
            /\ last'.raised = None
            /\ last'.ret = agents'[i]
            /\ last'.ret.status = last'.arg ]_view

\* C12 witness: update_status returned a record whose updated_at is later
\* than its created_at while a second agent, registered at a later time
\* than the first, is stored.
C12_Witness ==
  /\ last.op = "update_status"
  /\ last.raised = None
  /\ last.ret.updated_at > last.ret.created_at
  /\ Len(agents) >= 2
  /\ agents[2].created_at > agents[1].created_at

-----------------------------------------------------------------------------
(* The exclusion domain of the store *)

\* Threads whose connection to the database file is open.
InMedium == { t \in Threads : thr[t].pc = "medium" }

\* C13: at most one thread is accessing the database file at any instant,
\* and a thread accessing it holds the store lock.
C13_SingleExclusionDomain ==
  /\ Cardinality(InMedium) <= 1
  /\ \A t \in InMedium : lock = t

\* C13 witness: a thread is in the second section of update_agent_status
\* (the read after the write) with its connection open while the other
\* thread waits for the lock to run a read.
C13_Witness ==
  \E t, u \in Threads :
    /\ t # u
    /\ thr[t].pc = "medium"
    /\ thr[t].method = "update_agent_status"
    /\ thr[t].left = 1
    /\ thr[u].pc = "want"
    /\ thr[u].method = "list_agents"

-----------------------------------------------------------------------------
(* Properties of the transport clients *)

\* Positions of the events of one kind in the trace of the call.
EventsAt(ev) == { p \in 1..Len(req.trace) : req.trace[p].ev = ev }

\* Number of network attempts made before position p: the attempt number
\* (counted from 0) of an attempt at p.
AttemptNo(p) == Cardinality({ q \in EventsAt("attempt") : q < p })

\* The events of one kind, in order, reduced to a field.
RECURSIVE Pick(_, _)
Pick(tr, ev) ==
  IF tr = <<>> THEN <<>>
  ELSE IF Head(tr).ev = ev
    THEN <<IF ev = "attempt" \/ ev = "sleep" THEN Head(tr).n ELSE Head(tr).hook>>
         \o Pick(Tail(tr), ev)
  ELSE Pick(Tail(tr), ev)

Statuses == Pick(req.trace, "attempt")
Delays   == Pick(req.trace, "sleep")

CallDone == req.pc = "done"

\* C14: a logical call makes at most max_retries network attempts (none
\* when max_retries is not positive); no delay follows its final attempt;
\* with max_retries = 3 and three responses 503 it ends after the third
\* attempt in a generic AgentMoltError with status 503.
C14_BoundedRetries ==
  /\ Len(Statuses) <= (IF req.max_retries > 0 THEN req.max_retries ELSE 0)
  /\ CallDone => \A p \in EventsAt("sleep") :
                    \E q \in EventsAt("attempt") : q > p
  /\ (CallDone /\ req.max_retries = 3 /\ Statuses = <<503, 503, 503>>) =>
        /\ req.outcome = "raised"
        /\ req.error = Error("AgentMoltError", "server", 503)
        /\ Len(Delays) = 2
        /\ req.trace[Len(req.trace)].ev = "attempt"

\* C14 witness: the synchronous client, max_retries = 3, three responses
\* 503, the call over.
C14_Witness ==
  /\ CallDone
  /\ req.client = "sync"
  /\ req.max_retries = 3
  /\ Statuses = <<503, 503, 503>>
  /\ req.outcome = "raised"

\* An attempt that met a retryable status or a network failure.
RetryableFailure(status) == status \in RETRYABLE_CODES \/ status = 0

\* The last network attempt of the call met a 2xx response with a JSON body.
LastAttemptSucceeded ==
  /\ EventsAt("attempt") # {}
  /\ LET p == CHOOSE q \in EventsAt("attempt") :
                 \A r \in EventsAt("attempt") : r <= q
     IN  req.trace[p].n \in 200..299 /\ req.trace[p].json

C15_WitnessNetworkFailure ==
  /\ CallDone
  /\ req.client = "sync"
  /\ Statuses = <<0, 429, 200>>
  /\ req.outcome = "returned"
  /\ Delays = <<1, 2>>

\* The class of the error a non-retryable error status surfaces as.
ClassOf(status) ==
  IF status = 401 THEN "AuthenticationError"
  ELSE IF status = 404 THEN "NotFoundError"
  ELSE "AgentMoltError"

\* Statuses that are neither 2xx nor retryable (0 is no status).
Unretryable(status) ==
  /\ status # 0
  /\ status \notin 200..299
  /\ status \notin RETRYABLE_CODES

\* The attempt at position p met an unretryable status and the call ended
\* there in the error of that status's class carrying the status.
SurfacedAt(p) ==
  /\ p = Len(req.trace)
  /\ CallDone
  /\ req.outcome = "raised"
  /\ req.error.cls = ClassOf(req.trace[p].n)
  /\ req.error.status_code = req.trace[p].n

\* C16: in both transport clients an attempt that meets 401 ends the call
\* in AuthenticationError, 404 in NotFoundError, any other status that is
\* neither 2xx nor retryable in a generic AgentMoltError carrying the
\* status, at once: no delay and no attempt follows.
C16_ErrorClassification ==
  \A p \in EventsAt("attempt") : Unretryable(req.trace[p].n) => SurfacedAt(p)

\* The same for the synchronous client alone.
C16_ErrorClassificationSync ==
  req.client = "sync" => C16_ErrorClassification

\* The same for the asynchronous client on the statuses from 400 on.
C16_ErrorClassificationAsyncFrom400 ==
  req.client = "async" =>
    \A p \in EventsAt("attempt") :
      (Unretryable(req.trace[p].n) /\ req.trace[p].n >= 400) => SurfacedAt(p)

IsPrefix(s, u) == Len(s) <= Len(u) /\ s = SubSeq(u, 1, Len(s))

PreCalls  == Pick(req.trace, "pre")
PostCalls == Pick(req.trace, "post")

C17_WitnessError ==
  /\ CallDone
  /\ req.client = "sync"
  /\ req.outcome = "raised"
  /\ Len(Delays) = 2
  /\ Len(hooks.pre) = 2
  /\ Len(hooks.post) = 2

-----------------------------------------------------------------------------
(* Properties of the hook registry of AgentMoltLocal *)

\* The invocations of one stage's observers, in registration order.
Invocations(stage) ==
  [i \in 1..Len(local_hooks[stage]) |-> <<stage, local_hooks[stage][i]>>]

\* C18: every interface operation of AgentMoltLocal invokes the registered
\* pre observers before it is dispatched and, when it succeeds, the
\* registered post observers after it.
C18_LocalHooksObserve ==
  [][ last'.op \notin {"init", "add_hook"} =>
        hook_calls' = hook_calls \o Invocations("pre")
                        \o (IF last'.raised = None THEN Invocations("post")
                                                   ELSE <<>>) ]_view

\* What the code does instead: add_hook registers, nothing invokes.
C18_LocalHooksNeverInvoked ==
  hook_calls = <<>>

\* A successful operation made with a pre and a post observer registered.
C18_OperationWithObservers ==
  /\ local_hooks.pre # <<>>
  /\ local_hooks.post # <<>>
  /\ last.op = "get_agent"
  /\ last.raised = None

-----------------------------------------------------------------------------
(* Properties of the KillSwitch *)

AliveWorkers == {w \in DOMAIN workers : Alive(w)}

\* C19: at most one worker of the KillSwitch is alive at any time; a
\* start() that launched a worker while one is alive would make two.
C19_SingleWorker ==
  Cardinality(AliveWorkers) <= 1

\* What the code keeps: start() launches nothing while the thread kept in
\* self._thread is alive, and of the workers no join has given up on at
\* most one is alive.
C19_SingleTrackedWorker ==
  /\ [](Cardinality({w \in AliveWorkers : ~workers[w].abandoned}) <= 1)
  /\ [][Len(workers') > Len(workers) =>
          (ks.thread = 0 \/ ~Alive(ks.thread))]_vars

\* Two workers alive, the first one left behind by a join that timed out.
C19_TwoWorkersAlive ==
  /\ Cardinality(AliveWorkers) = 2
  /\ workers[1].abandoned
  /\ ~ks.stop_event

\* C20: a worker invokes the termination callback at most once, and once
\* it has observed the status killed or stopped it is in the callback or
\* has left its loop, and begins no further fetch.
C20_KillOnce ==
  \A w \in DOMAIN workers :
    /\ workers[w].kills <= 1
    /\ ~workers[w].polled_after_kill
    /\ workers[w].kills > 0 => workers[w].pc \in {"on_kill", "exited"}

\* The same for a KillSwitch whose callback does not raise an Exception.
C20_KillOnceUnlessCallbackRaises ==
  ks.on_kill # "raises" => C20_KillOnce

\* A worker that ended after its callback returned.
C20_WorkerEndedByKill ==
  \E w \in DOMAIN workers : workers[w].exit = "return" /\ workers[w].kills = 1

\* A worker that invoked a raising callback twice.
C20_CallbackInvokedTwice ==
  \E w \in DOMAIN workers : workers[w].kills = 2 /\ ks.on_kill = "raises"

\* Where worker w is, "none" for a worker not launched.
PcOf(w) == IF w \in DOMAIN workers THEN workers[w].pc ELSE "none"

\* The worker stop() is joining is at its wait or at the loop test.
JoiningWaiter(w) ==
  /\ ks.pc = "join"
  /\ ks.thread = w
  /\ PcOf(w) \in {"wait", "head"}

\* C21: when stop() is called while the worker waits between two polls,
\* the worker begins no further fetch and stop() does not return before the
\* worker has exited; and the worker does exit and stop() does return,
\* whether or not the poll interval is ever over.
C21_InterruptibleWait ==
  /\ [][ \A w \in DOMAIN workers :
           JoiningWaiter(w) =>
             /\ workers'[w].pc \in {"wait", "head", "exited"}
             /\ ks'.pc = "join" ]_vars
  /\ \A w \in 1..MaxWorkers :
       JoiningWaiter(w)
          ~> (PcOf(w) = "exited" /\ ks.pc = "idle")

\* C21 witness: stop() is joining a worker that has left its loop on the
\* stop signal.
C21_Witness ==
  /\ ks.pc = "join"
  /\ workers[ks.thread].pc = "exited"
  /\ workers[ks.thread].exit = "stop"

\* Worker w's fetch comes back in this step.
FetchEnds(w) == workers[w].pc = "fetch" /\ workers'[w].pc # "fetch"

\* C22: a fetch that fails with an error does not invoke the termination
\* callback and does not end the worker (no fetch ends a worker by an
\* exception): the worker goes to its wait, and
\* from there, unless stop() is called, only the end of the interval takes
\* it to the loop test and to the next fetch.
C22_PollErrorsNotFatal ==
  [][ \A w \in DOMAIN workers :
        /\ FetchEnds(w) => workers'[w].exit # "Exception"
        /\ (FetchEnds(w) /\ workers'[w].failed) =>
              /\ workers'[w].pc = "wait"
              /\ workers'[w].kills = workers[w].kills
              /\ ~workers'[w].due
        /\ (workers[w].failed /\ workers[w].pc = "wait") =>
              /\ workers'[w].pc \in {"wait", "head"}
              /\ workers'[w].pc = "head" => (ks.stop_event \/ workers[w].due)
        /\ (workers[w].failed /\ workers[w].pc = "head") =>
              /\ workers'[w].pc \in {"head", "fetch", "exited"}
              /\ workers'[w].pc = "fetch" => ~ks.stop_event
              /\ workers'[w].pc = "exited" => ks.stop_event
              /\ workers'[w].kills = workers[w].kills ]_vars

\* C22 witness: a worker whose fetch failed is in its next fetch, no
\* callback invoked.
C22_Witness ==
  \E w \in DOMAIN workers :
    /\ workers[w].pc = "fetch"
    /\ workers[w].failed
    /\ workers[w].kills = 0

\* A worker has detected the kill and ended in the SystemExit of the default
\* callback.
DefaultKillFired ==
  \E w \in DOMAIN workers : workers[w].exit = "SystemExit"

\* C23: with no callback configured, the detection of killed or stopped
\* aborts the process: the thread that built and started the KillSwitch
\* takes no step after the detection.
C23_DefaultKillAbortsProcess ==
  [][DefaultKillFired => ks' = ks]_vars

\* What the code does instead: the SystemExit ends the worker thread alone,
\* and it is raised nowhere but in a worker.
C23_DefaultKillEndsWorkerOnly ==
  \A w \in DOMAIN workers :
    workers[w].exit = "SystemExit" =>
      /\ workers[w].pc = "exited"
      /\ workers[w].kills = 1
      /\ ks.on_kill = "default"
      /\ ks.pc \in {"idle", "join"}

\* The main thread went on after the detection: it has called stop().
C23_MainContinues ==
  /\ DefaultKillFired
  /\ ks.stop_event
  /\ ks.pc = "idle"
  /\ ks.thread = 0

-----------------------------------------------------------------------------
(* Properties of the listings and of the stored rows *)

\* Global denylist rules naming action x.
GlobalDenies(x) ==
  { i \in 1..Len(policies) :
      /\ policies[i].agent_id = ""
      /\ policies[i].rule_type = "denylist"
      /\ policies[i].value = x }

\* C24: list_policies(A) with a non-empty A returns exactly the rules whose
\* agent_id is A or empty, each once; list_policies("") returns all rules;
\* and a global rule takes part in the evaluation for every agent: a global
\* denylist rule naming the action denies it whatever the agent id.
C24_ListPoliciesScope ==
  /\ last.op = "list_policies" =>
        /\ { last.ret[i] : i \in 1..Len(last.ret) } =
             { policies[i] :
                 i \in { j \in 1..Len(policies) :
                           \/ last.agent_id = ""
                           \/ policies[j].agent_id = last.agent_id
                           \/ policies[j].agent_id = "" } }
        /\ \A i, j \in 1..Len(last.ret) :
             last.ret[i].id = last.ret[j].id => i = j
  /\ (last.op = "check_policy" /\ GlobalDenies(last.arg) # {}) =>
        /\ last.raised = None
        /\ ~last.ret.allowed
        /\ \E i \in DenyMatches(last.agent_id, last.arg) :
             last.ret.policy_id = policies[i].id

\* C24 witness: a listing for agent a2 while one rule is scoped to a1 and
\* one is global; the listing has the global rule alone.
C24_Witness ==
  /\ last.op = "list_policies"
  /\ last.agent_id = "a2"
  /\ \E i \in 1..Len(policies) : policies[i].agent_id = "a1"
  /\ \E i \in 1..Len(policies) : policies[i].agent_id = ""
  /\ Len(last.ret) = 1
  /\ last.ret[1].agent_id = ""

\* A listing for a1 with a rule of a1 and a global rule, and a check for a2
\* denied by a global rule.
C24_WitnessOwnAndGlobal ==
  /\ last.op = "list_policies"
  /\ last.agent_id = "a1"
  /\ Len(last.ret) >= 2
  /\ \E i, j \in 1..Len(last.ret) :
       last.ret[i].agent_id = "a1" /\ last.ret[j].agent_id = ""

C24_WitnessGlobalDeny ==
  /\ last.op = "check_policy"
  /\ last.agent_id = "a2"
  /\ GlobalDenies(last.arg) # {}
  /\ last.raised = None
  /\ ~last.ret.allowed

\* The rows of a listing are in order of their timestamps: never
\* increasing when desc, never decreasing otherwise.
Ordered(s, desc) ==
  \A i, j \in 1..Len(s) :
    i < j => IF desc THEN s[i].created_at >= s[j].created_at
                     ELSE s[i].created_at <= s[j].created_at

\* C25: list_agents and list_events return the entities in reverse order
\* of their INSERTs, list_policies returns the rules in the order of their
\* INSERTs, whatever the threads and the timestamps.
C25_ListingOrder ==
  /\ last.op = "list_agents" => last.ret = Rev(agents)
  /\ last.op = "list_events" =>
        last.ret = Rev(SelectSeq(events, LAMBDA e : e.agent_id = last.agent_id))
  /\ last.op = "list_policies" =>
        last.ret = SelectSeq(policies,
                     LAMBDA p : \/ last.agent_id = ""
                                \/ p.agent_id \in {last.agent_id, ""})

\* What the code keeps: the listings are ordered by created_at, rows with
\* the same created_at in the order of their INSERTs.
C25_ListingByTimestamp ==
  /\ last.op = "list_agents" =>
        /\ Ordered(last.ret, TRUE)
        /\ last.ret = OrderByCreatedAtDesc(agents)
  /\ last.op = "list_events" => Ordered(last.ret, TRUE)
  /\ last.op = "list_policies" => Ordered(last.ret, FALSE)

\* Two agents with the same created_at are listed oldest first.
C25_TieListedOldestFirst ==
  /\ last.op = "list_agents"
  /\ Len(agents) = 2
  /\ agents[1].created_at = agents[2].created_at
  /\ last.ret = agents

\* A rule inserted second with an earlier timestamp is listed first.
C25_LateInsertListedFirst ==
  /\ last.op = "list_policies"
  /\ Len(policies) = 2
  /\ policies[2].created_at < policies[1].created_at
  /\ last.ret = <<policies[2], policies[1]>>

\* What of an agent row never changes.
Identity(r) ==
  [id |-> r.id, name |-> r.name, model |-> r.model, created_at |-> r.created_at]

\* C26: no operation deletes a row of any table; event, metric and policy
\* rows are never modified; of an agent row the id, name, model and
\* created_at never change, and the row changes at all only in an
\* update_status or kill on its id.
C26_AppendOnly ==
  [][ /\ Len(agents') >= Len(agents)
      /\ \A i \in 1..Len(agents) :
           /\ Identity(agents'[i]) = Identity(agents[i])
           /\ agents'[i] # agents[i] =>
                 /\ last'.op \in {"update_status", "kill"}
                 /\ last'.agent_id = agents[i].id
      /\ IsPrefix(events, events')
      /\ IsPrefix(metrics, metrics')
      /\ IsPrefix(policies, policies') ]_view

\* C26 witness: a kill has changed the status of an agent while an event
\* and a metric of it are stored.
C26_Witness ==
  /\ last.op = "kill"
  /\ last.raised = None
  /\ \E i \in 1..Len(agents) :
       agents[i].id = last.agent_id /\ agents[i].status = "killed"
  /\ events # <<>>
  /\ metrics # <<>>

\* The statuses of an agent the data model names.
AgentStatuses == {"idle", "running", "stopped", "failed", "killed"}

\* C27: every stored agent has one of the five statuses.
C27_StatusDomain ==
  \A i \in 1..Len(agents) : agents[i].status \in AgentStatuses

\* What the code keeps: register_agent stores and returns idle, kill stores
\* killed, and a status outside the five is one an update_status call
\* was given.
C27_StatusAsWritten ==
  /\ (last.op = "register_agent" /\ last.raised = None) =>
        /\ last.ret.status = "idle"
        /\ agents[RowOf(agents, last.agent_id)].status = "idle"
  /\ (last.op = "kill" /\ last.raised = None) =>
        agents[RowOf(agents, last.agent_id)].status = "killed"
  /\ \A i \in 1..Len(agents) :
        agents[i].status \notin AgentStatuses => agents[i].id \in touched

\* update_status has stored a status outside the five and returned it.
C27_UndocumentedStatusStored ==
  /\ last.op = "update_status"
  /\ last.raised = None
  /\ last.ret.status = "bogus"
  /\ agents[RowOf(agents, last.agent_id)].status = "bogus"

\* C28: every stored metric row has tokens_used, cost, tool_calls and
\* files_accessed at or above zero (so that the totals of the summary can
\* only grow and a limit once reached stays reached).
C28_MetricsNonNegative ==
  \A i \in 1..Len(metrics) :
    /\ metrics[i].tokens_used >= 0
    /\ metrics[i].cost >= 0
    /\ metrics[i].tool_calls >= 0
    /\ metrics[i].files_accessed >= 0

\* What the code keeps: a step that stores no value below zero lowers no
\* total, and the count never falls.
C28_MonotoneWhileNonNegative ==
  [][ LET before == Store_get_metrics_summary(metrics, "a1")
          after  == Store_get_metrics_summary(metrics', "a1")
      IN  /\ after.count >= before.count
          /\ (\A i \in 1..Len(metrics') :
                 metrics'[i].tokens_used >= 0 /\ metrics'[i].cost >= 0) =>
                /\ after.tokens_used >= before.tokens_used
                /\ after.cost >= before.cost
                /\ after.tool_calls >= before.tool_calls ]_view

\* The token limit of 2 was reached by the first metric row and is no
\* longer reached after the second: check_policy allows.
C28_LimitNoLongerReached ==
  /\ last.op = "check_policy"
  /\ last.raised = None
  /\ last.ret.allowed
  /\ Len(policies) = 1
  /\ policies[1].rule_type = "token_limit"
  /\ Len(metrics) = 2
  /\ metrics[1].tokens_used = 2
  /\ Store_get_metrics_summary(metrics, "a1").tokens_used < 2

\* The status the last network attempt of the call met (0: a network
\* failure, or no attempt made).
LastStatus ==
  IF EventsAt("attempt") = {} THEN 0
  ELSE req.trace[CHOOSE q \in EventsAt("attempt") :
                   \A r \in EventsAt("attempt") : r <= q].n

\* The call ended in an exception of the SDK's classification: an
\* AuthenticationError after 401, a NotFoundError after 404, the generic
\* AgentMoltError after anything else.
RaisedClassified ==
  /\ req.error.cls \in {"AgentMoltError", "AuthenticationError", "NotFoundError"}
  /\ req.error.cls = "AuthenticationError" <=> LastStatus = 401
  /\ req.error.cls = "NotFoundError" <=> LastStatus = 404

\* The last attempt of the call met a 2xx response whose body is not JSON.
MalformedSuccess ==
  /\ LastStatus \in 200..299
  /\ ~LastAttemptSucceeded

\* C29: a transport call of either client that ends in an exception ends
\* in AuthenticationError (after 401), NotFoundError (after 404) or else
\* the generic AgentMoltError, also after a 2xx response with a malformed
\* body and after exhausted retries; no other exception type escapes.
C29_OnlyControlPlaneErrors ==
  (CallDone /\ req.outcome = "raised") => RaisedClassified

\* What the code keeps: the asynchronous client raises only classified
\* errors, and so does the synchronous client unless its last attempt met
\* a 2xx response with a malformed body.
C29_ClassifiedExceptMalformedSync ==
  (CallDone /\ req.outcome = "raised" /\ ~(req.client = "sync" /\ MalformedSuccess))
    => RaisedClassified

\* A call of the synchronous client ended in a JSONDecodeError.
C29_DecodeErrorEscapes ==
  /\ CallDone
  /\ req.client = "sync"
  /\ req.outcome = "raised"
  /\ req.error.cls = "JSONDecodeError"
  /\ MalformedSuccess

\* A call of the asynchronous client met a malformed 2xx body on its last
\* attempt and ended in the generic AgentMoltError.
C29_AsyncMalformedClassified ==
  /\ CallDone
  /\ req.client = "async"
  /\ req.outcome = "raised"
  /\ MalformedSuccess
  /\ req.error.cls = "AgentMoltError"

\* The rules left when every rule scoped to an agent other than a is
\* taken away: the global rules and those of a.
WithoutOthersRules(a) ==
  SelectSeq(policies, LAMBDA p : p.agent_id = "" \/ p.agent_id = a)

\* The check just made gave what it would have given had no other
\* agent's rule been stored.
SameWithoutOthersRules ==
  LET alone == Store_check_policy(WithoutOthersRules(last.agent_id), metrics,
                                  last.agent_id, last.arg)
  IN  last.raised = alone.raised /\ last.ret = alone.ret

\* C30: the result of check_policy(A, action) is the one the same check
\* gives with every rule scoped to an agent B # A removed, for every agent
\* id A, the empty string included.
C30_RuleIsolation ==
  IsCheck => SameWithoutOthersRules

\* The same on the checks made with a non-empty agent id.
C30_RuleIsolationNonEmptyId ==
  (IsCheck /\ last.agent_id # "") => SameWithoutOthersRules

\* A check for the empty agent id denied by a rule scoped to agent a1.
C30_OtherAgentsRuleDecides ==
  /\ IsCheck
  /\ last.agent_id = ""
  /\ last.raised = None
  /\ ~last.ret.allowed
  /\ \E i \in 1..Len(policies) :
       policies[i].agent_id = "a1" /\ policies[i].id = last.ret.policy_id

\* A check for agent a2 allowed while a denylist rule of agent a1 names
\* the action.
C30_OtherAgentsRuleIgnored ==
  /\ IsCheck
  /\ last.agent_id = "a2"
  /\ last.raised = None
  /\ last.ret.allowed
  /\ \E i \in 1..Len(policies) :
       /\ policies[i].agent_id = "a1"
       /\ policies[i].rule_type = "denylist"
       /\ policies[i].value = last.arg

\* A check_policy call that has its result.
CheckDone(t) == run[t].method = "check_policy" /\ run[t].pc = "done"

\* C31: the result of a check_policy call made while other threads add
\* rules and log metrics is the result the evaluator yields on the store
\* as it was at some one instant between the call and its return.
C31_CheckLinearizable ==
  \A t \in Threads : CheckDone(t) => run[t].result \in run[t].snaps

\* What the code keeps: the rule list is that of one instant, and a call
\* whose rule list holds at most one limit rule reads the metrics once; if
\* no rule was added since the list was fetched, its result is that of the
\* instant of that read.
C31_LinearizableWithOneLimit ==
  \A t \in Threads :
    (CheckDone(t) /\ Cardinality({ j \in 1..Len(run[t].listed) :
        run[t].listed[j].rule_type \in {"cost_limit", "token_limit"} }) <= 1
                 /\ Len(run[t].listed) = Len(policies))
      => run[t].result \in run[t].snaps

\* A check denied by the token limit listed second although on no store
\* state since the call the evaluator gets as far as that rule: the cost
\* limit listed first was passed before the metric was logged.
C31_MixedSnapshot ==
  /\ CheckDone("t1")
  /\ Len(run["t1"].listed) = 2
  /\ run["t1"].listed[1].rule_type = "cost_limit"
  /\ run["t1"].result.ret.policy_id = run["t1"].listed[2].id
  /\ run["t1"].result \notin run["t1"].snaps

\* An update_status call that has returned a record.
UpdateReturned(t) ==
  /\ run[t].method = "update_agent_status"
  /\ run[t].pc = "done"
  /\ run[t].result.raised = None

\* C32: an update_status(id, s) call on a stored agent made while another
\* thread calls update_status or kill on the same agent returns a record
\* whose status is s, the one the call wrote.
C32_ReturnsOwnStatus ==
  \A t \in Threads : UpdateReturned(t) => run[t].result.ret.status = run[t].arg

\* What the code keeps: the record has the call's own status unless
\* another call wrote the agent's status between this call's UPDATE and
\* its get_agent, and then it has the status written last; the dict a
\* kill returns always says killed.
C32_OwnStatusOrLaterWrite ==
  \A t \in Threads :
    /\ UpdateReturned(t) =>
         /\ run[t].snaps = {} => run[t].result.ret.status = run[t].arg
         /\ run[t].result.ret.status \in {run[t].arg} \cup run[t].snaps
    /\ (run[t].method = "kill_agent" /\ run[t].pc = "done"
          /\ run[t].result.raised = None) =>
         run[t].result.ret.status = "killed"

\* update_status(a1, running) returned a record with the status killed,
\* written by the other thread's kill.
C32_ReturnsOthersStatus ==
  \E t \in Threads :
    /\ UpdateReturned(t)
    /\ run[t].arg = "running"
    /\ run[t].result.ret.status = "killed"
    /\ "killed" \in run[t].snaps

\* Threads inside a with self._lock block.
InSection == { t \in Threads : thr[t].pc \in {"locked", "medium", "closed"} }

\* The lock is held by a thread inside a with block or by none, and a
\* thread inside one holds it: a thread between two sections of a method,
\* waiting for the lock or in no call holds no lock.
LockDiscipline ==
  /\ \A t \in Threads : lock = t <=> t \in InSection
  /\ lock \in Threads \cup {None}

\* C33: the store lock is held only inside a locked section, never by a
\* thread that is about to acquire it (update_agent_status before its
\* get_agent, check_policy before list_policies and get_metrics_summary,
\* kill_agent), and a thread that holds it gives it back, also when a
\* statement of the section raised: no thread waits for a lock that is
\* never released.
C33_LockAlwaysReleased ==
  /\ []LockDiscipline
  /\ \A t \in Threads : (lock = t) ~> (lock = None)

\* C33 witness: a statement raised inside a locked section of
\* update_agent_status, the connection is closed and the lock still held,
\* while the other thread waits for the lock.
C33_Witness ==
  \E t, u \in Threads :
    /\ t # u
    /\ lock = t
    /\ thr[t].pc = "closed"
    /\ thr[t].raised
    /\ thr[t].method = "update_agent_status"
    /\ thr[u].pc = "want"

\* stop() has returned and start() has not been called since: the caller
\* is out of stop(), and the stop event, which only start() clears, is set.
Stopped == ks.pc = "idle" /\ ks.stop_event

\* C34: once stop() has returned and until start() is called again no
\* worker of the KillSwitch is alive (so that none fetches the agent or
\* invokes the termination callback).
C34_StoppedState ==
  Stopped => AliveWorkers = {}

\* What the code keeps: while the stop event is set no worker begins a
\* fetch, and a worker alive after stop() returned is one the join gave up
\* on, still inside the fetch or the callback it was in or on its way out
\* of the loop.
C34_StoppedUnlessJoinTimedOut ==
  /\ [](Stopped => \A w \in AliveWorkers : workers[w].abandoned)
  /\ [][ks.stop_event =>
          \A w \in DOMAIN workers :
            workers'[w].pc = "fetch" => workers[w].pc = "fetch"]_vars

\* stop() has returned and a worker is alive inside the termination
\* callback.
C34_CallbackRunsWhileStopped ==
  /\ Stopped
  /\ \E w \in AliveWorkers : workers[w].pc = "on_kill"

\* What is compared of a call that has ended: its attempts, its delays,
\* and its result or the class and status code of its error.
Observable(r) ==
  [attempts |-> Len(Pick(r.trace, "attempt")),
   delays   |-> Pick(r.trace, "sleep"),
   outcome  |-> r.outcome,
   cls      |-> r.error.cls,
   status_code |-> r.error.status_code]

\* Replies the two clients treat alike: all but a 2xx response with a
\* malformed body and a 3xx response.
TreatedAlike(resp) ==
  ~(resp.kind = "http" /\ resp.status \in 200..299 /\ ~resp.json)
  /\ ~(resp.kind = "http" /\ resp.status \in 300..399)

\* C35: for every max_retries and every sequence of per-attempt outcomes
\* the synchronous and the asynchronous client make the same number of
\* attempts, sleep the same delays and end with the same result or the
\* same error class and status code.
C35_ClientsEquivalent ==
  cmp # NoComparison => Observable(cmp.sync) = Observable(cmp.async)

\* What the code keeps: the two clients are equivalent on the replies
\* that are neither a malformed 2xx nor a 3xx response.
C35_EquivalentOnOtherReplies ==
  (cmp # NoComparison
     /\ \A k \in 1..Len(cmp.responses) : TreatedAlike(cmp.responses[k]))
    => Observable(cmp.sync) = Observable(cmp.async)

\* max_retries = 2, the server answers 200 with a malformed body twice:
\* the synchronous call ends in JSONDecodeError after one attempt, the
\* asynchronous call in AgentMoltError after two attempts and one delay.
C35_MalformedBodyDiffers ==
  /\ cmp.max_retries = 2
  /\ Len(cmp.sync.trace) = 1
  /\ cmp.sync.trace[1].n = 200
  /\ cmp.sync.error.cls = "JSONDecodeError"
  /\ Observable(cmp.async).attempts = 2
  /\ Observable(cmp.async).delays = <<BACKOFF_BASE>>
  /\ cmp.async.error.cls = "AgentMoltError"

\* The two clients agree on a call that was retried: 503, then 200.
C35_RetriedCallAgrees ==
  /\ cmp.max_retries = 3
  /\ Pick(cmp.sync.trace, "attempt") = <<503, 200>>
  /\ cmp.sync.outcome = "returned"
  /\ Observable(cmp.sync) = Observable(cmp.async)

\* A call that has ended made a network attempt if it ended in an error
\* or ran a pre-hook.
AttemptedBeforeEnd ==
  (CallDone /\ (req.outcome = "raised" \/ EventsAt("pre") # {}))
    => EventsAt("attempt") # {}

\* C36: for every max_retries, zero and negative values included, a
\* transport call that ends in an error has made at least one network
\* attempt, and so has a call for which a pre-hook was run.
C36_AtLeastOneAttempt ==
  AttemptedBeforeEnd

\* What the code keeps: the same for the clients built with a positive
\* max_retries.
C36_AtLeastOneAttemptWhenPositive ==
  req.max_retries >= 1 => AttemptedBeforeEnd

\* A call of the synchronous client built with max_retries = 0 ran its
\* pre-hook, sent nothing and ended in "Request failed after retries".
C36_FailedWithoutAttempt ==
  /\ CallDone
  /\ req.client = "sync"
  /\ req.max_retries = 0
  /\ EventsAt("pre") # {}
  /\ EventsAt("attempt") = {}
  /\ req.outcome = "raised"
  /\ req.error = Error("AgentMoltError", "Request failed after retries", 0)

====
